---- MODULE Spec2Model ----
(***************************************************************************)
(* State-machine model of the THREAT-AI chat client (chat script), of the  *)
(* history search of the query page (app.js) and of the remote service     *)
(* they talk to.  Every event handler and every continuation after an      *)
(* await is one action.  Texts are sequences of one-character strings so   *)
(* that trimming is computed, not assumed.                                 *)
(***************************************************************************)
EXTENDS Integers, Sequences, FiniteSets, Bags, TLC

VARIABLES
    currentConversationId,  \* let currentConversationId
    isWaitingForResponse,   \* let isWaitingForResponse
    sendBtnDisabled,        \* #send-btn .disabled
    inputValue,             \* #message-input .value
    transcript,             \* children of #messages-container, in order
    welcomeDisplay,         \* #welcome-screen .style.display
    containerDisplay,       \* #messages-container .style.display
    title,                  \* .conversation-title h2 .textContent
    messageMetadata,        \* window.messageMetadata
    idSeed,                 \* entropy consumed by message-id generation
    inserted,               \* history: message ids whose markup reached the DOM
    convList,               \* conversation ids rendered in #conversations-list
    pending,                \* bag of requests awaiting their response
    srvConvs,               \* conversations existing on the remote service
    srvNext,                \* next identifier the remote service hands out
    sendTally,              \* history: requests issued by the latest accepted send
    currentFeedbackMessageId, \* let currentFeedbackMessageId
    currentFeedbackRating,  \* let currentFeedbackRating
    modalDisplay,           \* #feedback-modal .style.display
    ops,                    \* number of user-initiated conversation operations so far
    fbOps,                  \* number of user-initiated export/feedback operations so far
    lastOp,                 \* history: the handler step taken last
    searchValue,            \* #history-search .value
    timers,                 \* ms left on each armed timeout of the debounced handler
    sinceInput,             \* history: ms since the latest input event, up to the wait
    histPending,            \* bag of history requests awaiting their response
    historyList,            \* items rendered in #history-list, in order
    historyCache,           \* let historyCache
    fired,                  \* history: the requests the debounced handler issued
    histFailed,             \* history: some history request got no usable answer
    inputs,                 \* number of input events on #history-search so far
    lastHist,               \* history: the query-page step taken last
    backend,                \* the values a backend response supplies to a renderer
    markup,                 \* what the renderer called last generated from them
    lastResult,             \* let lastResult of the query page
    submitBtnDisabled,      \* #submit-btn .disabled
    resultsView,            \* what #results holds
    feedbackDisplay,        \* #feedback-section .style.display
    queryPending,           \* bag of query-page requests awaiting their response
    resultSerial,           \* number of results the remote service has produced
    queryOps,               \* number of user-initiated query-page operations so far
    lastQuery               \* history: the query-page handler step taken last

vars == <<currentConversationId, isWaitingForResponse, sendBtnDisabled,
          inputValue, transcript, welcomeDisplay, containerDisplay, title,
          messageMetadata, idSeed, inserted, convList, pending, srvConvs,
          srvNext, sendTally, currentFeedbackMessageId, currentFeedbackRating,
          modalDisplay, ops, fbOps, lastOp, searchValue, timers, sinceInput,
          histPending, historyList, historyCache, fired, histFailed, inputs,
          lastHist, backend, markup, lastResult, submitBtnDisabled, resultsView,
          feedbackDisplay, queryPending, resultSerial, queryOps, lastQuery>>

\* the feedback modal's state, which the conversation handlers never touch
modalVars == <<currentFeedbackMessageId, currentFeedbackRating, modalDisplay, fbOps>>

\* the conversation state, which the export and feedback handlers never touch
chatVars == <<currentConversationId, isWaitingForResponse, sendBtnDisabled,
              inputValue, transcript, welcomeDisplay, containerDisplay, title,
              messageMetadata, idSeed, inserted, convList, srvConvs, srvNext,
              sendTally, ops>>

\* the query page's history panel, which the chat page never touches
queryVars == <<searchValue, timers, sinceInput, histPending, historyList,
               historyCache, fired, histFailed, inputs, lastHist>>

\* what the markup generators read and write, apart from the handlers
renderVars == <<backend, markup>>

\* the query form, its results and what is sent from them
submitVars == <<lastResult, submitBtnDisabled, resultsView, feedbackDisplay,
                queryPending, resultSerial, queryOps, lastQuery>>

\* the chat page as a whole, which the query page never touches
chatPageVars == <<chatVars, modalVars, pending, lastOp>>

----------------------------------------------------------------------------
(* Bounds *)

\* user-initiated conversation operations explored per behaviour
MaxOps == 2

\* user-initiated export and feedback operations explored per behaviour
MaxFbOps == 2

\* input events on the history search box explored per behaviour
MaxInputs == 3

\* length of the backend strings handed to the markup generators
MaxTextLen == 2

\* evidence items a result or a chat reply can carry
MaxEvidence == 4

\* user-initiated operations on the query form considered
MaxQueryOps == 4

----------------------------------------------------------------------------
(* Values *)

\* JavaScript null / undefined where a conversation id is expected; real
\* identifiers are the positive integers
Null == 0
Undefined == -1

NoText == << >>
ReplyText == <<"r">>
ErrorText == <<"L", "T">>
UnknownErrorText == <<"u">>
ConnectionErrorText == <<"c", ":">>
DefaultTitle == <<"T", "I", "C">>
LoadedTitle == <<"t">>

\* the fixed texts of the alerts
CreateAlertText == <<"E", "c">>
LoadAlertText == <<"E", "l">>
DeleteAlertText == <<"E", "d">>
ExportFailedText == <<"E", "x", ":", "f">>
ExportErrorText == <<"E", "x", ":", "n">>
FeedbackAlertText == <<"E", "f">>
FeedbackErrorText == <<"E", "f", ":", "n">>
TitleLen == 50

\* result.trace_id.substring(0, 8) and q.query.substring(0, 40)
TraceIdLen == 8
HistoryTitleLen == 40

\* what the user can have typed into #message-input
Inputs == { << >>, <<" ", " ">>, <<" ", "a", " ">> }

\* example prompts offered on the welcome screen
Examples == { <<"b">> }

\* metadata values a response can carry
MetaAbsent == [tag |-> "undefined", evidence |-> << >>, trace_id |-> << >>]
MetaNull == [tag |-> "null", evidence |-> << >>, trace_id |-> << >>]
MetaEmpty == [tag |-> "object", evidence |-> << >>, trace_id |-> << >>]
MetaFull == [tag |-> "object", evidence |-> <<"e1", "e2">>, trace_id |-> <<"x">>]
MetaVals == {MetaAbsent, MetaNull, MetaFull}

\* transcripts GET /api/conversations/{id} can return
Msg(role, content, metadata) ==
    [role |-> role, content |-> content, metadata |-> metadata]
LoadPayloads ==
    { << >>,
      <<Msg("user", <<"a">>, MetaAbsent), Msg("assistant", ReplyText, MetaFull)>>,
      <<Msg("user", <<"a">>, MetaAbsent), Msg("assistant", ReplyText, MetaAbsent)>>,
      <<Msg("assistant", ReplyText, MetaFull), Msg("assistant", ReplyText, MetaNull)>> }

\* conversations present on the service when the page is opened
PreExisting == {1}

\* what the user can have typed into #history-search
SearchInputs == {<< >>, <<" ">>, <<" ", "a">>, <<"b">>}

\* the stored queries GET /api/history returns, in the order returned
HistoryData == << <<"a", "b">>, <<"b">> >>

\* the wait the history-search handler is debounced with
DebounceWait == 300

\* the steps in which the passing of time is observed
TickMs == DebounceWait \div 3

Outcomes == {"ok", "http_error", "transport"}

----------------------------------------------------------------------------
(* Pure helpers *)

IsSpace(c) == c = " "

RECURSIVE TrimStart(_)
TrimStart(s) ==
    IF s = << >> THEN s
    ELSE IF IsSpace(Head(s)) THEN TrimStart(Tail(s)) ELSE s

RECURSIVE TrimEnd(_)
TrimEnd(s) ==
    IF s = << >> THEN s
    ELSE IF IsSpace(s[Len(s)]) THEN TrimEnd(SubSeq(s, 1, Len(s) - 1)) ELSE s

TrimIdentity(s) == s

\* String.prototype.trim
Trim(s) == TrimEnd(TrimStart(s))

Min(a, b) == IF a < b THEN a ELSE b

\* String.prototype.substring(0, n)
Substring0(s, n) == SubSeq(s, 1, Min(n, Len(s)))

\* the rating of a feedback record that carries none
RatingAbsent == -1

\* the feedback record of a POST /api/feedback
FeedbackBody(rating, relevance, accuracy, comments, answer, trace_id) ==
    [rating |-> rating, relevance |-> relevance, accuracy |-> accuracy,
     comments |-> comments, answer |-> answer, trace_id |-> trace_id]

\* the body of a request that posts no feedback record
NoBody == FeedbackBody(RatingAbsent, NoText, NoText, NoText, NoText, NoText)

Request(kind, conv, cause, text) ==
    [kind |-> kind, conv |-> conv, cause |-> cause, text |-> text, body |-> NoBody]

\* a request with a feedback record as its body
Posting(req, body) == [req EXCEPT !.body = body]

ListRequest == Request("list", Null, "refresh", NoText)

Issue(bag, req) == bag (+) SetToBag({req})
Resolve(bag, req) == bag (-) SetToBag({req})
PendingOf(kind) == {r \in BagToSet(pending) : r.kind = kind}
PendingCount(kind) ==
    BagCardinality([r \in PendingOf(kind) |-> pending[r]])

\* the characters of backend strings: the five escapeHtml is about and one
\* that needs no escaping
Alphabet == {"&", "<", ">", "\"", "'", "a"}

Texts == UNION {[1..n -> Alphabet] : n \in 0..MaxTextLen}

\* a result without a confidence field
ConfidenceAbsent == -1

\* confidences a result can carry, in ten-thousandths: 8450 is 0.845
Confidences == {ConfidenceAbsent, 0, 8449, 8450, 8455, 10000}

\* what a backend response supplies: one string, used for every string
\* field, a confidence and a number of evidence items
BackendValues == [text : Texts, confidence : Confidences, evidence : 0..MaxEvidence]

\* one backend value placed into generated markup: the field it comes from,
\* its value and the text that stands for it in the markup
Field(name, value, placed) == [name |-> name, value |-> value, placed |-> placed]

\* the markup a generator produced on a page: the backend values it placed
Markup(by, page, fields) ==
    [by |-> by, page |-> page, fields |-> fields, width |-> NoText,
     label |-> NoText, badge |-> NoText, listed |-> 0]

\* markup with a confidence bar of the given width and label
WithConfidence(base, percent) ==
    [base EXCEPT !.width = percent \o <<"%">>, !.label = percent \o <<"%">>]

\* markup with an evidence section: its count badge and the items it lists
WithEvidence(base, badge, listed) == [base EXCEPT !.badge = badge, !.listed = listed]

\* a result of POST /api/query, told apart by the serial of its production
Result(serial, query) == [serial |-> serial, query |-> query]

\* let lastResult = null
NoResult == Result(0, NoText)

\* what #results holds: nothing yet, the spinner, a result card or an error
View(kind, result, text) == [kind |-> kind, result |-> result, text |-> text]

\* a request of the query form: the query posted, or the result snapshot an
\* export or a feedback record carries
QueryRequest(kind, query, snapshot, rating) ==
    [kind |-> kind, query |-> query, snapshot |-> snapshot, rating |-> rating]

QueryOp(op, outcome, result, snapshot, rating, issued) ==
    [op |-> op, outcome |-> outcome, result |-> result, snapshot |-> snapshot,
     rating |-> rating, issued |-> issued]

\* a request of the history panel: kind "history" or "search"
HistRequest(kind, term) == [kind |-> kind, term |-> term]

\* a step of the history panel: the term it read and the requests it issued
HistOp(op, term, issued) ==
    [op |-> op, term |-> term, issued |-> issued, outcome |-> "none",
     payload |-> << >>]

\* a step that resolves a history request: how the request ended and the
\* queries its response carried
HistOpOf(base, outcome, payload) ==
    [base EXCEPT !.outcome = outcome, !.payload = payload]

Op(op, conv, id, text, outcome, issued, report) ==
    [op |-> op, conv |-> conv, id |-> id, text |-> text, outcome |-> outcome,
     issued |-> issued, report |-> report, cause |-> "none", payload |-> << >>,
     body |-> NoBody, shown |-> NoText]

\* a step that reports to the user with the given text
Showing(base, text) == [base EXCEPT !.shown = text]

\* a step that resolves a request: what caused the request, and the body
\* the response carried
OpOf(base, cause, payload) == [base EXCEPT !.cause = cause, !.payload = payload]

----------------------------------------------------------------------------
(* Message rendering *)

Entry(kind, conv, text, id) == [kind |-> kind, conv |-> conv, text |-> text, id |-> id]

AppendUserMessage(dom, conv, content) ==
    Append(dom, Entry("user", conv, content, 0))

AppendTypingIndicator(dom, conv) ==
    Append(dom, Entry("typing", conv, NoText, 0))

AppendErrorMessage(dom, conv, error) ==
    Append(dom, Entry("error", conv, error, 0))

RemoveTypingIndicatorNever(dom) == dom

\* document.querySelector('.typing-message') then remove(): the first one
RemoveTypingIndicator(dom) ==
    IF \E i \in 1..Len(dom) : dom[i].kind = "typing"
    THEN LET k == CHOOSE i \in 1..Len(dom) :
                      /\ dom[i].kind = "typing"
                      /\ \A j \in 1..(i - 1) : dom[j].kind # "typing"
         IN SubSeq(dom, 1, k - 1) \o SubSeq(dom, k + 1, Len(dom))
    ELSE dom

GenMessageIdConstant(seed) == 1

\* 'msg-' + Date.now() + '-' + Math.random()...: a fresh id per call
GenMessageId(seed) == seed

RegistryPutSkip(reg, id, content, metadata) == reg

\* if (!window.messageMetadata) window.messageMetadata = {}; then the store
RegistryPut(reg, id, content, metadata) ==
    [defined |-> TRUE,
     entries |-> [i \in (DOMAIN reg.entries) \cup {id} |->
                     IF i = id THEN [content |-> content, metadata |-> metadata]
                     ELSE reg.entries[i]]]

\* the default parameter value: metadata = {} applies to undefined only
DefaultMeta(metadata) == IF metadata.tag = "undefined" THEN MetaEmpty ELSE metadata

\* appendAssistantMessage on the state st = [dom, reg, seed, ins, threw];
\* reading metadata.evidence of null throws after the registry store
AppendAssistantMessage(st, conv, content, metadata) ==
    LET id == GenMessageId(st.seed)
        meta == DefaultMeta(metadata)
        reg1 == RegistryPut(st.reg, id, content, meta)
    IN IF meta.tag = "null"
       THEN [dom |-> st.dom, reg |-> reg1, seed |-> st.seed + 1,
             ins |-> st.ins, threw |-> TRUE]
       ELSE [dom |-> Append(st.dom, Entry("assistant", conv, content, id)),
             reg |-> reg1, seed |-> st.seed + 1,
             ins |-> st.ins \cup {id}, threw |-> FALSE]

\* conversation.messages.forEach(...) of loadConversation; an exception
\* thrown by a callback ends the iteration
RECURSIVE RenderMessages(_, _, _)
RenderMessages(st, conv, msgs) ==
    IF msgs = << >> \/ st.threw THEN st
    ELSE LET m == Head(msgs)
             st1 == IF m.role = "user"
                    THEN [st EXCEPT !.dom = AppendUserMessage(st.dom, conv, m.content)]
                    ELSE AppendAssistantMessage(st, conv, m.content, m.metadata)
         IN RenderMessages(st1, conv, Tail(msgs))

RenderState(dom) ==
    [dom |-> dom, reg |-> messageMetadata, seed |-> idSeed, ins |-> inserted,
     threw |-> FALSE]

----------------------------------------------------------------------------
(* Initial state: the page after the DOMContentLoaded handler has run *)

\* both pages after their DOMContentLoaded handlers have run
InitPages ==
    /\ currentConversationId = Null
    /\ isWaitingForResponse = FALSE
    /\ sendBtnDisabled = FALSE
    /\ inputValue = NoText
    /\ transcript = << >>
    /\ welcomeDisplay = ""
    /\ containerDisplay = ""
    /\ title = DefaultTitle
    /\ messageMetadata = [defined |-> FALSE, entries |-> << >>]
    /\ idSeed = 1
    /\ inserted = {}
    /\ convList = {}
    /\ pending = SetToBag({ListRequest, Request("create", Null, "init", NoText)})
    /\ srvConvs = PreExisting
    /\ srvNext = 2
    /\ sendTally = [posts |-> 0, lists |-> 0]
    /\ currentFeedbackMessageId = Null
    /\ currentFeedbackRating = 0
    /\ modalDisplay = ""
    /\ ops = 0
    /\ fbOps = 0
    /\ lastOp = Op("init", Null, 0, NoText, "none", << >>, "none")
    /\ searchValue = NoText
    /\ timers = << >>
    /\ sinceInput = DebounceWait
    /\ histPending = SetToBag({HistRequest("history", NoText)})
    /\ historyList = << >>
    /\ historyCache = [defined |-> TRUE, items |-> << >>]
    /\ fired = << >>
    /\ histFailed = FALSE
    /\ inputs = 0
    /\ lastHist = HistOp("init", NoText, << >>)
    /\ lastResult = NoResult
    /\ submitBtnDisabled = FALSE
    /\ resultsView = View("none", NoResult, NoText)
    /\ feedbackDisplay = ""
    /\ queryPending = EmptyBag
    /\ resultSerial = 0
    /\ queryOps = 0
    /\ lastQuery = QueryOp("init", "none", NoResult, NoResult, RatingAbsent, FALSE)

\* the pages before any response has supplied values to a markup generator
Init ==
    /\ InitPages
    /\ backend = [text |-> NoText, confidence |-> ConfidenceAbsent, evidence |-> 0]
    /\ markup = Markup("none", "none", << >>)

\* the pages with backend values at hand for the markup generators
InitRender ==
    /\ InitPages
    /\ backend \in BackendValues
    /\ markup = Markup("none", "none", << >>)

----------------------------------------------------------------------------
(* sendMessage *)

SendAcceptedIgnoringFlag(message) == message # NoText

\* the negation of: if (!message || isWaitingForResponse) return;
SendAccepted(message) == message # NoText /\ ~isWaitingForResponse

\* the body of sendMessage up to its first await, with input.value = val
SendMessageBody(op, val) ==
    LET message == Trim(val) IN
    IF ~SendAccepted(message)
    THEN /\ inputValue' = val
         /\ lastOp' = Op(op, currentConversationId, 0, val, "ignored", << >>, "none")
         /\ UNCHANGED <<currentConversationId, isWaitingForResponse, sendBtnDisabled,
                        transcript, welcomeDisplay, containerDisplay, title,
                        messageMetadata, idSeed, inserted, convList, pending,
                        srvConvs, srvNext, sendTally>>
    ELSE /\ welcomeDisplay' = "none"
         /\ containerDisplay' = IF welcomeDisplay # "none" THEN "block"
                                ELSE containerDisplay
         /\ inputValue' = NoText
         /\ transcript' = AppendTypingIndicator(
                              AppendUserMessage(transcript, currentConversationId, message),
                              currentConversationId)
         /\ isWaitingForResponse' = TRUE
         /\ sendBtnDisabled' = TRUE
         /\ pending' = Issue(pending, Request("send", currentConversationId, "user", message))
         /\ sendTally' = [posts |-> 1, lists |-> 0]
         /\ lastOp' = Op(op, currentConversationId, 0, val, "accepted",
                         <<"POST message">>, "none")
         /\ UNCHANGED <<currentConversationId, title, messageMetadata, idSeed,
                        inserted, convList, srvConvs, srvNext>>

\* Enter without Shift in the text area, which then holds val
KeyEnter ==
    \E val \in Inputs :
        /\ ops < MaxOps
        /\ ops' = ops + 1
        /\ UNCHANGED <<modalVars, queryVars, renderVars, submitVars>>
        /\ SendMessageBody("sendMessage", val)

\* click on the send button, which a disabled button does not deliver
ClickSend ==
    \E val \in Inputs :
        /\ ops < MaxOps
        /\ ~sendBtnDisabled
        /\ ops' = ops + 1
        /\ UNCHANGED <<modalVars, queryVars, renderVars, submitVars>>
        /\ SendMessageBody("sendMessage", val)

\* click on an example prompt card
UseExample ==
    \E prompt \in Examples :
        /\ ops < MaxOps
        /\ ops' = ops + 1
        /\ UNCHANGED <<modalVars, queryVars, renderVars, submitVars>>
        /\ SendMessageBody("useExample", prompt)

MessagesContainerOf(conv) ==
    IF conv = currentConversationId THEN transcript ELSE << >>

\* document.getElementById('messages-container'): the one container of the
\* page, whichever conversation conv the message belongs to
MessagesContainer(conv) == transcript

\* sendMessage from the resolution of its request to the end of finally
SendResponse ==
    \E req \in PendingOf("send"), outcome \in Outcomes,
       metadata \in MetaVals, withError \in BOOLEAN :
        /\ outcome = "ok" => req.conv \in srvConvs /\ withError = FALSE
        /\ outcome = "http_error" => metadata = MetaAbsent
        /\ outcome = "transport" => metadata = MetaAbsent /\ withError = FALSE
        /\ LET shown == RemoveTypingIndicator(MessagesContainer(req.conv))
               st == AppendAssistantMessage(RenderState(shown), req.conv,
                                            ReplyText, metadata)
               success == outcome = "ok" /\ ~st.threw
               dom == CASE success -> st.dom
                        [] outcome = "ok" ->
                             AppendErrorMessage(RemoveTypingIndicator(shown),
                                                req.conv, ConnectionErrorText)
                        [] outcome = "http_error" ->
                             AppendErrorMessage(shown, req.conv,
                                 IF withError THEN ErrorText ELSE UnknownErrorText)
                        [] OTHER ->
                             AppendErrorMessage(shown, req.conv, ConnectionErrorText)
           IN /\ transcript' = dom
              /\ messageMetadata' = IF outcome = "ok" THEN st.reg ELSE messageMetadata
              /\ idSeed' = IF outcome = "ok" THEN st.seed ELSE idSeed
              /\ inserted' = IF outcome = "ok" THEN st.ins ELSE inserted
              /\ title' = IF success THEN Substring0(ReplyText, TitleLen) ELSE title
              /\ pending' = IF success THEN Issue(Resolve(pending, req), ListRequest)
                            ELSE Resolve(pending, req)
              /\ sendTally' = IF success THEN [sendTally EXCEPT !.lists = @ + 1]
                              ELSE sendTally
              /\ lastOp' = Showing(
                                Op("sendResponse", req.conv, 0, req.text,
                                   CASE success -> "rendered"
                                     [] outcome = "ok" -> "threw"
                                     [] outcome = "http_error" /\ ~withError ->
                                            "http_error_nofield"
                                     [] OTHER -> outcome,
                                   IF success THEN <<"GET conversations">> ELSE << >>,
                                   IF success THEN "none" ELSE "inline error"),
                                IF success THEN NoText ELSE dom[Len(dom)].text)
        /\ isWaitingForResponse' = FALSE
        /\ sendBtnDisabled' = FALSE
        /\ UNCHANGED <<currentConversationId, inputValue, welcomeDisplay,
                       containerDisplay, convList, srvConvs, srvNext, ops>>
        /\ UNCHANGED <<modalVars, queryVars, renderVars, submitVars>>

----------------------------------------------------------------------------
(* Conversation management *)

\* createNewChat up to its await
CreateNewChat ==
    /\ ops < MaxOps
    /\ ops' = ops + 1
    /\ pending' = Issue(pending, Request("create", Null, "user", NoText))
    /\ lastOp' = Op("createNewChat", currentConversationId, 0, NoText, "requested",
                    <<"POST conversations">>, "none")
    /\ UNCHANGED <<currentConversationId, isWaitingForResponse, sendBtnDisabled,
                   inputValue, transcript, welcomeDisplay, containerDisplay, title,
                   messageMetadata, idSeed, inserted, convList, srvConvs, srvNext,
                   sendTally>>
    /\ UNCHANGED <<modalVars, queryVars, renderVars, submitVars>>

ClearedContainerKept == transcript

\* container.innerHTML = ''
ClearedContainer == << >>

CreatedIdStale(outcome) == currentConversationId

\* what createNewChat assigns to currentConversationId: data.conversation_id,
\* which an error body does not carry
CreatedId(outcome) == IF outcome = "ok" THEN srvNext ELSE Undefined

\* createNewChat from the resolution of its request on
CreateResponse ==
    \E req \in PendingOf("create"), outcome \in Outcomes :
        /\ IF outcome = "transport"
           THEN /\ pending' = Resolve(pending, req)
                /\ lastOp' = Showing(OpOf(Op("createResponse", req.conv, 0, NoText,
                                              outcome, << >>, "alert"),
                                           req.cause, << >>), CreateAlertText)
                /\ UNCHANGED <<currentConversationId, welcomeDisplay, containerDisplay,
                               transcript, title, srvConvs, srvNext>>
           ELSE /\ currentConversationId' = CreatedId(outcome)
                /\ welcomeDisplay' = "flex"
                /\ containerDisplay' = "none"
                /\ transcript' = ClearedContainer
                /\ title' = DefaultTitle
                /\ pending' = Issue(Resolve(pending, req), ListRequest)
                /\ srvConvs' = IF outcome = "ok" THEN srvConvs \cup {srvNext} ELSE srvConvs
                /\ srvNext' = IF outcome = "ok" THEN srvNext + 1 ELSE srvNext
                /\ lastOp' = OpOf(Op("createResponse", req.conv, 0, NoText, outcome,
                                      <<"GET conversations">>, "none"),
                                   req.cause, << >>)
        /\ UNCHANGED <<isWaitingForResponse, sendBtnDisabled, inputValue,
                       messageMetadata, idSeed, inserted, convList, sendTally, ops>>
        /\ UNCHANGED <<modalVars, queryVars, renderVars, submitVars>>

\* click on an item of the conversation list: loadConversation up to its await
LoadConversation ==
    \E convId \in convList :
        /\ ops < MaxOps
        /\ ops' = ops + 1
        /\ pending' = Issue(pending, Request("load", convId, "user", NoText))
        /\ lastOp' = Op("loadConversation", convId, 0, NoText, "requested",
                        <<"GET conversation">>, "none")
        /\ UNCHANGED <<currentConversationId, isWaitingForResponse, sendBtnDisabled,
                       inputValue, transcript, welcomeDisplay, containerDisplay,
                       title, messageMetadata, idSeed, inserted, convList, srvConvs,
                       srvNext, sendTally>>
        /\ UNCHANGED <<modalVars, queryVars, renderVars, submitVars>>

\* loadConversation from the resolution of its request on
LoadResponse ==
    \E req \in PendingOf("load"), outcome \in Outcomes, messages \in LoadPayloads :
        /\ outcome = "ok" => req.conv \in srvConvs
        /\ outcome # "ok" => messages = << >>
        /\ IF outcome = "transport"
           THEN /\ pending' = Resolve(pending, req)
                /\ lastOp' = Showing(Op("loadResponse", req.conv, 0, NoText, outcome,
                                        << >>, "alert"), LoadAlertText)
                /\ UNCHANGED <<currentConversationId, welcomeDisplay, containerDisplay,
                               transcript, title, messageMetadata, idSeed, inserted>>
           ELSE LET st == RenderMessages(RenderState(ClearedContainer), req.conv,
                                         messages)
                    \* an error body has no messages: forEach of undefined throws
                    threw == st.threw \/ outcome = "http_error"
                IN /\ currentConversationId' = req.conv
                   /\ welcomeDisplay' = "none"
                   /\ containerDisplay' = "block"
                   /\ title' = IF outcome = "ok" THEN LoadedTitle ELSE NoText
                   /\ transcript' = st.dom
                   /\ messageMetadata' = st.reg
                   /\ idSeed' = st.seed
                   /\ inserted' = st.ins
                   /\ pending' = IF threw THEN Resolve(pending, req)
                                 ELSE Issue(Resolve(pending, req), ListRequest)
                   /\ lastOp' = Showing(
                                     OpOf(Op("loadResponse", req.conv, 0, NoText,
                                             CASE outcome = "http_error" -> "http_error"
                                               [] st.threw -> "threw"
                                               [] OTHER -> "rendered",
                                             IF threw THEN << >>
                                             ELSE <<"GET conversations">>,
                                             IF threw THEN "alert" ELSE "none"),
                                          req.cause, messages),
                                     IF threw THEN LoadAlertText ELSE NoText)
        /\ UNCHANGED <<isWaitingForResponse, sendBtnDisabled, inputValue, convList,
                       srvConvs, srvNext, sendTally, ops>>
        /\ UNCHANGED <<modalVars, queryVars, renderVars, submitVars>>

\* whether the conversation a handler is called on is the active one when
\* the handler is called
CalledOn(convId) ==
    IF convId = currentConversationId THEN "on active" ELSE "on other"

\* click on the delete button of a list item: deleteConversation up to its
\* await; confirmed is the answer to confirm('Delete this conversation?')
DeleteConversation ==
    \E convId \in convList, confirmed \in BOOLEAN :
        /\ ops < MaxOps
        /\ ops' = ops + 1
        /\ pending' = IF confirmed
                      THEN Issue(pending, Request("delete", convId,
                                                  CalledOn(convId), NoText))
                      ELSE pending
        /\ lastOp' = Op("deleteConversation", convId, 0, NoText,
                        IF confirmed THEN "requested" ELSE "declined",
                        IF confirmed THEN <<"DELETE conversation">> ELSE << >>, "none")
        /\ UNCHANGED <<currentConversationId, isWaitingForResponse, sendBtnDisabled,
                       inputValue, transcript, welcomeDisplay, containerDisplay,
                       title, messageMetadata, idSeed, inserted, convList, srvConvs,
                       srvNext, sendTally>>
        /\ UNCHANGED <<modalVars, queryVars, renderVars, submitVars>>

DeletedIsActiveAlways(convId) == TRUE

\* if (convId === currentConversationId), evaluated when DELETE has resolved
DeletedIsActive(convId) == convId = currentConversationId

\* deleteConversation from the resolution of its request on; the response
\* status is not inspected, so an error response continues like a success
DeleteResponse ==
    \E req \in PendingOf("delete"), outcome \in Outcomes :
        /\ srvConvs' = IF outcome = "ok" THEN srvConvs \ {req.conv} ELSE srvConvs
        /\ IF outcome = "transport"
           THEN /\ pending' = Resolve(pending, req)
                /\ lastOp' = Showing(OpOf(Op("deleteResponse", req.conv, 0, NoText,
                                              outcome, << >>, "alert"),
                                           req.cause, << >>), DeleteAlertText)
           ELSE IF DeletedIsActive(req.conv)
           THEN /\ pending' = Issue(Resolve(pending, req),
                                    Request("create", req.conv,
                                            IF outcome = "ok" THEN "delete"
                                            ELSE "delete failed", NoText))
                /\ lastOp' = OpOf(Op("deleteResponse", req.conv, 0, NoText, outcome,
                                      <<"POST conversations">>, "none"),
                                   req.cause, << >>)
           ELSE /\ pending' = Issue(Resolve(pending, req), ListRequest)
                /\ lastOp' = OpOf(Op("deleteResponse", req.conv, 0, NoText, outcome,
                                      <<"GET conversations">>, "none"),
                                   req.cause, << >>)
        /\ UNCHANGED <<currentConversationId, isWaitingForResponse, sendBtnDisabled,
                       inputValue, transcript, welcomeDisplay, containerDisplay,
                       title, messageMetadata, idSeed, inserted, convList, srvNext,
                       sendTally, ops>>
        /\ UNCHANGED <<modalVars, queryVars, renderVars, submitVars>>

\* loadConversations from the resolution of its request on; an error body
\* has no conversations field and reading its length throws into the catch
ListResponse ==
    \E req \in PendingOf("list"), outcome \in Outcomes :
        /\ pending' = Resolve(pending, req)
        /\ convList' = IF outcome = "ok" THEN srvConvs ELSE convList
        /\ lastOp' = Op("listResponse", Null, 0, NoText, outcome, << >>, "none")
        /\ UNCHANGED <<currentConversationId, isWaitingForResponse, sendBtnDisabled,
                       inputValue, transcript, welcomeDisplay, containerDisplay,
                       title, messageMetadata, idSeed, inserted, srvConvs, srvNext,
                       sendTally, ops>>
        /\ UNCHANGED <<modalVars, queryVars, renderVars, submitVars>>

----------------------------------------------------------------------------
(* Export and feedback *)

\* message ids a handler can be invoked with: every id generated so far and
\* one that was never generated
MessageIds == 1..idSeed

StarRatings == 1..5

\* what the user can have put into a field of the feedback modal
FieldValues == {NoText, <<"x">>}

NoEntry == [content |-> NoText, metadata |-> MetaEmpty]

LookupOrPlaceholder(reg, id) ==
    [threw |-> FALSE, found |-> TRUE,
     entry |-> IF reg.defined /\ id \in DOMAIN reg.entries THEN reg.entries[id]
               ELSE NoEntry]

\* const msgData = window.messageMetadata[messageId]: a TypeError while the
\* registry object does not exist, undefined for an id it does not hold
Lookup(reg, id) ==
    IF ~reg.defined THEN [threw |-> TRUE, found |-> FALSE, entry |-> NoEntry]
    ELSE IF id \notin DOMAIN reg.entries
         THEN [threw |-> FALSE, found |-> FALSE, entry |-> NoEntry]
         ELSE [threw |-> FALSE, found |-> TRUE, entry |-> reg.entries[id]]

\* reading msgData.metadata.<field> throws when the stored metadata is null
MetadataReadable(entry) == entry.metadata.tag # "null"

FeedbackStep(op, id, outcome, issued, report) ==
    /\ fbOps < MaxFbOps
    /\ fbOps' = fbOps + 1
    /\ lastOp' = Op(op, currentConversationId, id, NoText, outcome, issued, report)

\* a feedback handler's step with the feedback record it has put together
\* from a form or from a button of the given type
FeedbackStepWith(op, id, outcome, issued, report, type, body) ==
    /\ fbOps < MaxFbOps
    /\ fbOps' = fbOps + 1
    /\ lastOp' = [Op(op, currentConversationId, id, NoText, outcome, issued, report)
                      EXCEPT !.cause = type, !.body = body]

\* exportMessagePDF / exportMessageCSV up to the await of fetch
ExportMessage ==
    \E id \in MessageIds, format \in {"PDF", "CSV"} :
        LET found == Lookup(messageMetadata, id)
            op == IF format = "PDF" THEN "exportMessagePDF" ELSE "exportMessageCSV"
            sent == ~found.threw /\ found.found /\ MetadataReadable(found.entry)
        IN /\ IF sent
              THEN /\ pending' = Issue(pending, Request("export", id, format, NoText))
                   /\ FeedbackStep(op, id, "requested", <<"POST export">>, "none")
              ELSE /\ pending' = pending
                   /\ FeedbackStep(op, id,
                                   IF ~found.threw /\ ~found.found THEN "not found"
                                   ELSE "threw",
                                   << >>, "alert")
           /\ UNCHANGED <<currentFeedbackMessageId, currentFeedbackRating, modalDisplay>>
           /\ UNCHANGED <<chatVars, queryVars, renderVars, submitVars>>

\* the export handlers from the resolution of their request on
ExportResponse ==
    \E req \in PendingOf("export"), outcome \in Outcomes :
        /\ pending' = Resolve(pending, req)
        /\ lastOp' = Showing(Op("exportResponse", currentConversationId, req.conv,
                                NoText, outcome, << >>,
                                IF outcome = "ok" THEN "download" ELSE "alert"),
                             CASE outcome = "ok" -> NoText
                               [] outcome = "http_error" -> ExportFailedText
                               [] OTHER -> ExportErrorText)
        /\ UNCHANGED <<modalVars, queryVars, renderVars, submitVars>>
        /\ UNCHANGED <<chatVars, queryVars, renderVars, submitVars>>

\* the action buttons of message id are in the transcript, so that a click
\* can supply the event whose target quickFeedback marks active; without
\* it event.target throws before the request
Clickable(id) ==
    \E i \in 1..Len(transcript) :
        transcript[i].kind = "assistant" /\ transcript[i].id = id

QuickRatingFlat(type) == 5

\* rating: type === 'positive' ? 5 : 1
QuickRating(type) == IF type = "positive" THEN 5 ELSE 1

\* relevance: type === 'positive' ? 'relevant' : 'not_relevant'
QuickRelevance(type) == IF type = "positive" THEN <<"r">> ELSE <<"n">>

\* the record quickFeedback posts for the registry entry msgData
QuickBody(type, msgData) ==
    FeedbackBody(QuickRating(type), QuickRelevance(type), NoText,
                 IF type = "positive" THEN <<"Q", "+">> ELSE <<"Q", "-">>,
                 msgData.content, msgData.metadata.trace_id)

\* quickFeedback up to the await of fetch
QuickFeedback ==
    \E id \in MessageIds, type \in {"positive", "negative"} :
        LET found == Lookup(messageMetadata, id)
            sent == /\ ~found.threw
                    /\ found.found
                    /\ Clickable(id)
                    /\ MetadataReadable(found.entry)
            body == QuickBody(type, found.entry)
        IN /\ IF sent
              THEN /\ pending' = Issue(pending,
                                       Posting(Request("quick", id, type, NoText), body))
                   /\ FeedbackStepWith("quickFeedback", id, "requested",
                                       <<"POST feedback">>, "none", type, body)
              ELSE /\ pending' = pending
                   /\ FeedbackStepWith("quickFeedback", id,
                                       IF ~found.threw /\ ~found.found THEN "not found"
                                       ELSE "threw",
                                       << >>, "none", type, NoBody)
           /\ UNCHANGED <<currentFeedbackMessageId, currentFeedbackRating, modalDisplay>>
           /\ UNCHANGED <<chatVars, queryVars, renderVars, submitVars>>

\* quickFeedback after its await: the response is not looked at
QuickResponse ==
    \E req \in PendingOf("quick"), outcome \in Outcomes :
        /\ pending' = Resolve(pending, req)
        /\ lastOp' = Op("quickResponse", currentConversationId, req.conv, NoText,
                        outcome, << >>, "none")
        /\ UNCHANGED <<modalVars, queryVars, renderVars, submitVars>>
        /\ UNCHANGED <<chatVars, queryVars, renderVars, submitVars>>

OpenFeedbackModal ==
    \E id \in MessageIds :
        /\ currentFeedbackMessageId' = id
        /\ currentFeedbackRating' = 0
        /\ modalDisplay' = "flex"
        /\ FeedbackStep("openFeedbackModal", id, "none", << >>, "none")
        /\ UNCHANGED pending
        /\ UNCHANGED <<chatVars, queryVars, renderVars, submitVars>>

\* the modal's close button, or Escape while the modal is displayed
CloseFeedbackModal ==
    /\ modalDisplay = "flex"
    /\ modalDisplay' = "none"
    /\ currentFeedbackMessageId' = Null
    /\ currentFeedbackRating' = 0
    /\ FeedbackStep("closeFeedbackModal", currentFeedbackMessageId, "none", << >>, "none")
    /\ UNCHANGED pending
    /\ UNCHANGED <<chatVars, queryVars, renderVars, submitVars>>

\* click on a star of the modal
SetModalRating ==
    \E rating \in StarRatings :
        /\ modalDisplay = "flex"
        /\ currentFeedbackRating' = rating
        /\ FeedbackStep("setModalRating", currentFeedbackMessageId, "none", << >>, "none")
        /\ UNCHANGED <<currentFeedbackMessageId, modalDisplay, pending>>
        /\ UNCHANGED <<chatVars, queryVars, renderVars, submitVars>>

\* the record the modal's submitFeedback puts together: rating is
\* currentFeedbackRating || 0
ModalBody(rating, relevance, accuracy, comments, msgData) ==
    FeedbackBody(IF rating # 0 THEN rating ELSE 0, relevance, accuracy, comments,
                 msgData.content, msgData.metadata.trace_id)

FeedbackIsEmptyNever(rating, relevance, accuracy, comments) == FALSE

\* if (currentFeedbackRating === 0 && !relevance && !accuracy && !comments)
FeedbackIsEmpty(rating, relevance, accuracy, comments) ==
    rating = 0 /\ relevance = NoText /\ accuracy = NoText /\ comments = NoText

\* submitFeedback of the modal up to the await of fetch; the three fields
\* hold what the user has put into them
SubmitFeedback ==
    \E relevance \in FieldValues, accuracy \in FieldValues, comments \in FieldValues :
        LET id == currentFeedbackMessageId
            found == Lookup(messageMetadata, id)
            outcome ==
                CASE id = Null -> "no message"
                  [] found.threw -> "threw"
                  [] ~found.found -> "not found"
                  [] FeedbackIsEmpty(currentFeedbackRating, relevance, accuracy,
                                     comments) -> "empty"
                  [] ~MetadataReadable(found.entry) -> "threw in try"
                  [] OTHER -> "requested"
            body == ModalBody(currentFeedbackRating, relevance, accuracy, comments,
                              found.entry)
        IN /\ modalDisplay = "flex"
           /\ IF outcome = "requested"
              THEN /\ pending' = Issue(pending,
                                       Posting(Request("feedback", id, "modal", NoText),
                                               body))
                   /\ FeedbackStepWith("submitFeedback", id, outcome,
                                       <<"POST feedback">>, "none", "modal", body)
              ELSE /\ pending' = pending
                   /\ FeedbackStepWith("submitFeedback", id, outcome, << >>,
                                       IF outcome \in {"no message", "threw"} THEN "none"
                                       ELSE "alert", "modal", body)
           /\ UNCHANGED <<currentFeedbackMessageId, currentFeedbackRating, modalDisplay>>
           /\ UNCHANGED <<chatVars, queryVars, renderVars, submitVars>>

\* submitFeedback from the resolution of its request on: a success closes
\* the modal, whatever message it now shows
FeedbackResponse ==
    \E req \in PendingOf("feedback"), outcome \in Outcomes :
        /\ pending' = Resolve(pending, req)
        /\ IF outcome = "ok"
           THEN /\ modalDisplay' = "none"
                /\ currentFeedbackMessageId' = Null
                /\ currentFeedbackRating' = 0
                /\ lastOp' = Op("feedbackResponse", currentConversationId, req.conv,
                                NoText, outcome, << >>, "toast")
           ELSE /\ lastOp' = Showing(Op("feedbackResponse", currentConversationId,
                                        req.conv, NoText, outcome, << >>, "alert"),
                                     IF outcome = "http_error" THEN FeedbackAlertText
                                     ELSE FeedbackErrorText)
                /\ UNCHANGED <<currentFeedbackMessageId, currentFeedbackRating,
                               modalDisplay>>
        /\ UNCHANGED fbOps
        /\ UNCHANGED <<chatVars, queryVars, renderVars, submitVars>>

----------------------------------------------------------------------------
(* History search of the query page *)

\* whether the stored query q contains term
Contains(q, term) ==
    \E i \in 1..(Len(q) - Len(term) + 1) : SubSeq(q, i, i + Len(term) - 1) = term

\* the stored queries GET /api/history/search?q=term returns
Filter(term) == SelectSeq(HistoryData, LAMBDA q : Contains(q, term))

Max0(a) == IF a < 0 THEN 0 ELSE a

\* without element i
RemoveAt(seq, i) == SubSeq(seq, 1, i - 1) \o SubSeq(seq, i + 1, Len(seq))

ArmDebounceNoClear(armed) == Append(armed, DebounceWait)

\* executedFunction of debounce: clearTimeout(timeout), which holds the
\* timeout armed last, then timeout = setTimeout(later, wait)
ArmDebounce(armed) ==
    (IF armed = << >> THEN armed ELSE RemoveAt(armed, Len(armed))) \o <<DebounceWait>>

\* an input event on #history-search, which then holds val: the debounced
\* handler re-arms its timeout and nothing else happens
InputEvent ==
    \E val \in SearchInputs :
        /\ inputs < MaxInputs
        /\ val # searchValue
        /\ inputs' = inputs + 1
        /\ searchValue' = val
        /\ timers' = ArmDebounce(timers)
        /\ sinceInput' = 0
        /\ lastHist' = HistOp("input", val, << >>)
        /\ UNCHANGED <<histPending, historyList, historyCache, fired, histFailed>>
        /\ UNCHANGED <<chatPageVars, renderVars, submitVars>>

\* time passes while a timeout is armed and not yet due
Tick ==
    /\ \E i \in 1..Len(timers) : timers[i] > 0
    /\ timers' = [i \in 1..Len(timers) |-> Max0(timers[i] - TickMs)]
    /\ sinceInput' = Min(DebounceWait, sinceInput + TickMs)
    /\ lastHist' = HistOp("tick", NoText, << >>)
    /\ UNCHANGED <<searchValue, histPending, historyList, historyCache, fired,
                   histFailed, inputs>>
    /\ UNCHANGED <<chatPageVars, renderVars, submitVars>>

\* a due timeout runs later(): clearTimeout(timeout), then the handler reads
\* e.target.value.trim() and calls searchHistory(term) or loadQueryHistory(),
\* each up to its await
TimerFire ==
    \E i \in 1..Len(timers) :
        /\ timers[i] = 0
        /\ LET term == Trim(searchValue)
               req == IF term # NoText THEN HistRequest("search", term)
                      ELSE HistRequest("history", NoText)
               rest == RemoveAt(timers, i)
           IN /\ timers' = IF i = Len(timers) THEN rest
                           ELSE RemoveAt(rest, Len(rest))
              /\ histPending' = Issue(histPending, req)
              /\ fired' = Append(fired, req)
              /\ lastHist' = HistOp("fire", term, <<req>>)
        /\ UNCHANGED <<searchValue, sinceInput, historyList, historyCache,
                       histFailed, inputs>>
        /\ UNCHANGED <<chatPageVars, renderVars, submitVars>>

DisplayHistoryMerged(shown, queries) == shown \o queries

\* displayHistory(queries): historyList.innerHTML is assigned the markup of
\* queries, or the 'No queries yet' placeholder, which holds no item
DisplayHistory(shown, queries) == queries

\* loadQueryHistory from the resolution of its request on; an error body
\* has no queries: historyCache becomes undefined and displayHistory throws
\* at queries.length, before the list is touched
HistoryResponse ==
    \E req \in DOMAIN histPending, outcome \in Outcomes :
        /\ req.kind = "history"
        /\ histPending' = Resolve(histPending, req)
        /\ historyCache' = CASE outcome = "ok" -> [defined |-> TRUE, items |-> HistoryData]
                             [] outcome = "http_error" -> [defined |-> FALSE, items |-> << >>]
                             [] OTHER -> historyCache
        /\ historyList' = IF outcome = "ok" THEN DisplayHistory(historyList, HistoryData)
                          ELSE historyList
        /\ histFailed' = (histFailed \/ outcome # "ok")
        /\ lastHist' = HistOpOf(HistOp("historyResponse", NoText, << >>), outcome,
                                IF outcome = "ok" THEN HistoryData ELSE << >>)
        /\ UNCHANGED <<searchValue, timers, sinceInput, fired, inputs>>
        /\ UNCHANGED <<chatPageVars, renderVars, submitVars>>

\* searchHistory from the resolution of its request on
SearchResponse ==
    \E req \in DOMAIN histPending, outcome \in Outcomes :
        /\ req.kind = "search"
        /\ histPending' = Resolve(histPending, req)
        /\ historyList' = IF outcome = "ok"
                          THEN DisplayHistory(historyList, Filter(req.term))
                          ELSE historyList
        /\ histFailed' = (histFailed \/ outcome # "ok")
        /\ lastHist' = HistOpOf(HistOp("searchResponse", req.term, << >>), outcome,
                                IF outcome = "ok" THEN Filter(req.term) ELSE << >>)
        /\ UNCHANGED <<searchValue, timers, sinceInput, historyCache, fired, inputs>>
        /\ UNCHANGED <<chatPageVars, renderVars, submitVars>>

----------------------------------------------------------------------------
(* The query form: submitQuery, export and feedback of the result *)

EnterQueryText == <<"P">>
UnknownOccurredText == <<"U">>
ExportFormats == {"pdf", "csv"}

QueryPendingOf(kinds) == {r \in BagToSet(queryPending) : r.kind \in kinds}

QueryPendingCount(kinds) ==
    LET reqs == QueryPendingOf(kinds)
        RECURSIVE Sum(_)
        Sum(S) == IF S = {} THEN 0
                  ELSE LET r == CHOOSE x \in S : TRUE
                       IN CopiesIn(r, queryPending) + Sum(S \ {r})
    IN Sum(reqs)

QueryStep(op, outcome, result, snapshot, rating, issued) ==
    lastQuery' = QueryOp(op, outcome, result, snapshot, rating, issued)

SnapshotNone(result) == NoResult

\* what an export or a feedback record carries of lastResult: the object
\* itself, or its fields with null for those of a null lastResult
Snapshot(result) == result

\* submitQuery up to the await of fetch, the textarea holding val
SubmitQueryBody(op, val) ==
    LET query == Trim(val) IN
    /\ IF query = NoText
       THEN /\ resultsView' = View("error", NoResult, EnterQueryText)
            /\ QueryStep(op, "rejected", NoResult, NoResult, RatingAbsent, FALSE)
            /\ UNCHANGED <<submitBtnDisabled, queryPending>>
       ELSE /\ submitBtnDisabled' = TRUE
            /\ resultsView' = View("loading", NoResult, NoText)
            /\ queryPending' = Issue(queryPending,
                                     QueryRequest("query", query, NoResult, RatingAbsent))
            /\ QueryStep(op, "requested", NoResult, NoResult, RatingAbsent, TRUE)
    /\ queryOps' = queryOps + 1
    /\ UNCHANGED <<lastResult, feedbackDisplay, resultSerial>>
    /\ UNCHANGED <<chatPageVars, queryVars, renderVars>>

\* click on the submit button, which a disabled button does not deliver
ClickSubmit ==
    \E val \in Inputs :
        /\ queryOps < MaxQueryOps
        /\ ~submitBtnDisabled
        /\ SubmitQueryBody("clickSubmit", val)

\* Ctrl+Enter in the query textarea
CtrlEnter ==
    \E val \in Inputs :
        /\ queryOps < MaxQueryOps
        /\ SubmitQueryBody("ctrlEnter", val)

\* submitQuery from the resolution of its request to the end of finally;
\* displayResults assigns lastResult and writes the result card
QueryResponse ==
    \E req \in QueryPendingOf({"query"}), outcome \in Outcomes, withError \in BOOLEAN :
        /\ outcome # "http_error" => withError = FALSE
        /\ queryPending' = Resolve(queryPending, req)
        /\ IF outcome = "ok"
           THEN LET result == Result(resultSerial + 1, req.query) IN
                /\ resultSerial' = resultSerial + 1
                /\ lastResult' = result
                /\ resultsView' = View("results", result, NoText)
                /\ feedbackDisplay' = "block"
                /\ QueryStep("queryResponse", outcome, result, NoResult,
                             RatingAbsent, FALSE)
           ELSE /\ resultsView' = View("error", NoResult,
                                       CASE outcome = "transport" -> ConnectionErrorText
                                         [] withError -> ErrorText
                                         [] OTHER -> UnknownOccurredText)
                /\ QueryStep("queryResponse", outcome, NoResult, NoResult,
                             RatingAbsent, FALSE)
                /\ UNCHANGED <<lastResult, feedbackDisplay, resultSerial>>
        /\ submitBtnDisabled' = FALSE
        /\ UNCHANGED queryOps
        /\ UNCHANGED <<chatPageVars, queryVars, renderVars>>

\* exportPDF or exportCSV up to the await of fetch, called from the buttons
\* under the result card or from showExportOptions
ExportResult ==
    \E format \in ExportFormats, from \in {"buttons", "options"} :
        /\ queryOps < MaxQueryOps
        /\ from = "buttons" => resultsView.kind = "results"
        /\ queryOps' = queryOps + 1
        /\ IF lastResult = NoResult
           THEN /\ QueryStep("export", "rejected", NoResult, NoResult, RatingAbsent, FALSE)
                /\ UNCHANGED queryPending
           ELSE /\ queryPending' = Issue(queryPending,
                                         QueryRequest(format, NoText, Snapshot(lastResult),
                                                      RatingAbsent))
                /\ QueryStep("export", "requested", NoResult, Snapshot(lastResult),
                             RatingAbsent, TRUE)
        /\ UNCHANGED <<lastResult, submitBtnDisabled, resultsView, feedbackDisplay,
                       resultSerial>>
        /\ UNCHANGED <<chatPageVars, queryVars, renderVars>>

\* exportPDF or exportCSV after the await: a download or an alert
ExportResultResponse ==
    \E req \in QueryPendingOf(ExportFormats), outcome \in Outcomes :
        /\ queryPending' = Resolve(queryPending, req)
        /\ QueryStep("exportResponse", outcome, NoResult, req.snapshot,
                     RatingAbsent, FALSE)
        /\ UNCHANGED <<lastResult, submitBtnDisabled, resultsView, feedbackDisplay,
                       resultSerial, queryOps>>
        /\ UNCHANGED <<chatPageVars, queryVars, renderVars>>

\* the query page's submitFeedback up to the await of fetch; rating is the
\* highest active star, absent without one
SubmitResultFeedback ==
    \E rating \in {RatingAbsent} \cup StarRatings :
        /\ queryOps < MaxQueryOps
        /\ feedbackDisplay = "block"
        /\ queryOps' = queryOps + 1
        /\ queryPending' = Issue(queryPending,
                                 QueryRequest("feedback", NoText, Snapshot(lastResult),
                                              rating))
        /\ QueryStep("submitFeedback", "requested", NoResult, Snapshot(lastResult),
                     rating, TRUE)
        /\ UNCHANGED <<lastResult, submitBtnDisabled, resultsView, feedbackDisplay,
                       resultSerial>>
        /\ UNCHANGED <<chatPageVars, queryVars, renderVars>>

\* the query page's submitFeedback after the await: on success the form is
\* reset and the section hidden
ResultFeedbackResponse ==
    \E req \in QueryPendingOf({"feedback"}), outcome \in Outcomes :
        /\ queryPending' = Resolve(queryPending, req)
        /\ feedbackDisplay' = IF outcome = "ok" THEN "none" ELSE feedbackDisplay
        /\ QueryStep("feedbackResponse", outcome, NoResult, req.snapshot,
                     req.rating, FALSE)
        /\ UNCHANGED <<lastResult, submitBtnDisabled, resultsView, resultSerial,
                       queryOps>>
        /\ UNCHANGED <<chatPageVars, queryVars, renderVars>>

----------------------------------------------------------------------------
(* Markup generation *)

\* the entity a special character is written as
EntityOf(c) ==
    CASE c = "&" -> <<"&", "a", "m", "p", ";">>
      [] c = "<" -> <<"&", "l", "t", ";">>
      [] c = ">" -> <<"&", "g", "t", ";">>
      [] c = "\"" -> <<"&", "q", "u", "o", "t", ";">>
      [] c = "'" -> <<"&", "#", "0", "3", "9", ";">>
      [] OTHER -> <<c>>

\* text with every character of special replaced by its entity
RECURSIVE ReplaceSpecials(_, _)
ReplaceSpecials(special, text) ==
    IF text = << >> THEN << >>
    ELSE (IF Head(text) \in special THEN EntityOf(Head(text)) ELSE <<Head(text)>>)
             \o ReplaceSpecials(special, Tail(text))

\* the chat script's escapeHtml: div.textContent = text; return div.innerHTML.
\* Serialising a text node writes & < > as entities and leaves quotes as
\* they are
EscapeHtmlChat(text) == ReplaceSpecials({"&", "<", ">"}, text)

\* the query page's escapeHtml, the later of its two declarations:
\* String(text).replace(/[&<>"']/g, m => map[m])
EscapeHtmlQuery(text) == ReplaceSpecials({"&", "<", ">", "\"", "'"}, text)

\* .replace(/'/g, "\\'"): a backslash before every single quote
RECURSIVE BackslashQuotes(_)
BackslashQuotes(text) ==
    IF text = << >> THEN << >>
    ELSE (IF Head(text) = "'" THEN <<"\\", "'">> ELSE <<Head(text)>>)
             \o BackslashQuotes(Tail(text))

UnknownActor == <<"U">>

\* e.actor || 'Unknown'
OrUnknown(actor) == IF actor = NoText THEN UnknownActor ELSE actor

\* the escapeHtml in force on a page
EscapeOn(page, text) ==
    IF page = "chat" THEN EscapeHtmlChat(text) ELSE EscapeHtmlQuery(text)

\* the fields of one evidence item as both pages place them, each through
\* the page's escapeHtml
EvidenceItem(page, e) ==
    <<Field("evidence.actor", OrUnknown(e.text), EscapeOn(page, OrUnknown(e.text))),
      Field("evidence.source", e.text, EscapeOn(page, e.text)),
      Field("evidence.text", e.text, EscapeOn(page, e.text))>>

\* the fields of the first n evidence items
RECURSIVE EvidenceFields(_, _, _)
EvidenceFields(page, e, n) ==
    IF n = 0 THEN << >>
    ELSE EvidenceFields(page, e, n - 1) \o EvidenceItem(page, e)

Digit(d) == <<"0", "1", "2", "3", "4", "5", "6", "7", "8", "9">>[d + 1]

\* a natural number as JavaScript writes it into a template
RECURSIVE Digits(_)
Digits(n) == IF n < 10 THEN <<Digit(n)>> ELSE Digits(n \div 10) \o <<Digit(n % 10)>>

\* n.toFixed(1) of n = tenths / 10
Fixed1(tenths) == Digits(tenths \div 10) \o <<".">> \o Digits(tenths % 10)

\* the tenths of a percent toFixed(1) can round confidence * 100 to; on a
\* tie the binary value of the product decides, either way
RoundedTenths(confidence) ==
    LET low == confidence \div 10
        rest == confidence % 10
    IN CASE rest < 5 -> {low}
         [] rest > 5 -> {low + 1}
         [] OTHER -> {low, low + 1}

ConfidencePercentWhole(tenths) == Digits(tenths \div 10)

\* confidencePercent = (confidence * 100).toFixed(1), rounded to tenths
ConfidencePercent(tenths) == Fixed1(tenths)

\* result.confidence || 0
ConfidenceOrZero(confidence) == IF confidence = ConfidenceAbsent THEN 0 ELSE confidence

\* the evidence items the chat lists: metadata.evidence.slice(0, 3)
ChatEvidenceShown == 3

\* the evidence section both pages generate for n items of which they list
\* some: none without evidence, else the count badge and the items
EvidenceSection(base, n, listed) ==
    IF n > 0 THEN WithEvidence(base, Digits(n), listed) ELSE base

\* the query page's displayResults(result); the trace id is placed only
\* when it is not empty
DisplayResults ==
    /\ \E tenths \in RoundedTenths(ConfidenceOrZero(backend.confidence)) :
           markup' = EvidenceSection(
               WithConfidence(
                   Markup("displayResults", "query",
                      <<Field("query", backend.text, EscapeHtmlQuery(backend.text)),
                        Field("answer", backend.text, EscapeHtmlQuery(backend.text))>>
                      \o EvidenceFields("query", backend, backend.evidence)
                      \o <<Field("model", backend.text, EscapeHtmlQuery(backend.text))>>
                      \o (IF backend.text # NoText
                          THEN <<Field("trace_id", Substring0(backend.text, TraceIdLen),
                                       Substring0(backend.text, TraceIdLen))>>
                          ELSE << >>)),
                   ConfidencePercent(tenths)),
               backend.evidence, backend.evidence)
    /\ UNCHANGED backend
    /\ UNCHANGED <<chatPageVars, queryVars, submitVars>>

\* the query page's showError(message)
ShowError ==
    /\ markup' = Markup("showError", "query",
           <<Field("error", backend.text, EscapeHtmlQuery(backend.text))>>)
    /\ UNCHANGED backend
    /\ UNCHANGED <<chatPageVars, queryVars, submitVars>>

\* one item of the query page's displayHistory(queries)
HistoryItem ==
    /\ markup' = Markup("displayHistory", "query",
           <<Field("query_id", backend.text, backend.text),
             Field("query", backend.text,
                   BackslashQuotes(EscapeHtmlQuery(backend.text))),
             Field("query", Substring0(backend.text, HistoryTitleLen),
                   EscapeHtmlQuery(Substring0(backend.text, HistoryTitleLen)))>>)
    /\ UNCHANGED backend
    /\ UNCHANGED <<chatPageVars, queryVars, submitVars>>

\* one item of the chat script's conversation list in loadConversations
ConversationItem ==
    /\ markup' = Markup("loadConversations", "chat",
           <<Field("conversation.id", backend.text, backend.text),
             Field("conversation.title", backend.text, EscapeHtmlChat(backend.text)),
             Field("conversation.id", backend.text, backend.text)>>)
    /\ UNCHANGED backend
    /\ UNCHANGED <<chatPageVars, queryVars, submitVars>>

\* one card of the chat script's loadExamplePrompts
ExamplePromptCard ==
    /\ markup' = Markup("loadExamplePrompts", "chat",
           <<Field("sample", backend.text,
                   BackslashQuotes(EscapeHtmlChat(backend.text))),
             Field("sample", backend.text, EscapeHtmlChat(backend.text))>>)
    /\ UNCHANGED backend
    /\ UNCHANGED <<chatPageVars, queryVars, submitVars>>

\* the markup of the chat script's appendUserMessage(content)
UserMessageMarkup ==
    /\ markup' = Markup("appendUserMessage", "chat",
           <<Field("content", backend.text, EscapeHtmlChat(backend.text))>>)
    /\ UNCHANGED backend
    /\ UNCHANGED <<chatPageVars, queryVars, submitVars>>

\* the markup of the chat script's appendAssistantMessage(content, metadata)
AssistantMessageMarkup ==
    /\ LET listed == Min(backend.evidence, ChatEvidenceShown) IN
       markup' = EvidenceSection(
           Markup("appendAssistantMessage", "chat",
              <<Field("content", backend.text, EscapeHtmlChat(backend.text))>>
              \o EvidenceFields("chat", backend, listed)),
           backend.evidence, listed)
    /\ UNCHANGED backend
    /\ UNCHANGED <<chatPageVars, queryVars, submitVars>>

\* the markup of the chat script's appendErrorMessage(error)
ErrorMessageMarkup ==
    /\ markup' = Markup("appendErrorMessage", "chat",
           <<Field("error", backend.text, EscapeHtmlChat(backend.text))>>)
    /\ UNCHANGED backend
    /\ UNCHANGED <<chatPageVars, queryVars, submitVars>>

\* escapeHtml(text) called in the chat script
EscapeChat ==
    /\ markup' = Markup("escapeHtml", "chat",
                        <<Field("text", backend.text, EscapeHtmlChat(backend.text))>>)
    /\ UNCHANGED backend
    /\ UNCHANGED <<chatPageVars, queryVars, submitVars>>

\* escapeHtml(text) called on the query page
EscapeQuery ==
    /\ markup' = Markup("escapeHtml", "query",
                        <<Field("text", backend.text, EscapeHtmlQuery(backend.text))>>)
    /\ UNCHANGED backend
    /\ UNCHANGED <<chatPageVars, queryVars, submitVars>>

----------------------------------------------------------------------------
Next ==
    \/ KeyEnter
    \/ ClickSend
    \/ UseExample
    \/ SendResponse
    \/ CreateNewChat
    \/ CreateResponse
    \/ LoadConversation
    \/ LoadResponse
    \/ DeleteConversation
    \/ DeleteResponse
    \/ ListResponse

Spec == Init /\ [][Next]_vars

\* sendMessage with the handlers that start a new chat, whose responses
\* empty the container a typing indicator is in
NextSend ==
    \/ KeyEnter
    \/ ClickSend
    \/ UseExample
    \/ SendResponse
    \/ CreateNewChat
    \/ CreateResponse
    \/ ListResponse

\* the chat page when the request of every send eventually resolves: fetch
\* settles its promise, with a response or with a rejection
SpecSendResolves == Init /\ [][NextSend]_vars /\ WF_vars(SendResponse)

\* the export and feedback handlers, with the sends that fill the registry
NextFeedback ==
    \/ KeyEnter
    \/ SendResponse
    \/ CreateResponse
    \/ ExportMessage
    \/ ExportResponse
    \/ QuickFeedback
    \/ QuickResponse
    \/ OpenFeedbackModal
    \/ CloseFeedbackModal
    \/ SetModalRating
    \/ SubmitFeedback
    \/ FeedbackResponse

SpecFeedback == Init /\ [][NextFeedback]_vars

\* the history search of the query page
NextHistory ==
    \/ InputEvent
    \/ Tick
    \/ TimerFire
    \/ HistoryResponse
    \/ SearchResponse

SpecHistory == Init /\ [][NextHistory]_vars

\* the markup generators, each called with the backend values
NextRender ==
    \/ EscapeChat
    \/ EscapeQuery
    \/ DisplayResults
    \/ ShowError
    \/ HistoryItem
    \/ ConversationItem
    \/ ExamplePromptCard
    \/ UserMessageMarkup
    \/ AssistantMessageMarkup
    \/ ErrorMessageMarkup

SpecRender == InitRender /\ [][NextRender]_vars

\* the registry entry of a rendered reply
RenderedReply == [content |-> ReplyText, metadata |-> MetaFull]

\* the feedback record submitted for the first reply: no star, a relevance
SubmittedBody == ModalBody(0, <<"x">>, NoText, NoText, RenderedReply)

\* the chat page after two messages were sent and answered in the
\* conversation created at page load, the modal was opened for the first
\* reply and its form submitted: the feedback request is in flight and the
\* modal still open; user operations are counted from here
InitModal ==
    /\ currentConversationId = 2
    /\ isWaitingForResponse = FALSE
    /\ sendBtnDisabled = FALSE
    /\ inputValue = NoText
    /\ transcript = <<Entry("user", 2, <<"a">>, 0), Entry("assistant", 2, ReplyText, 1),
                      Entry("user", 2, <<"a">>, 0), Entry("assistant", 2, ReplyText, 2)>>
    /\ welcomeDisplay = "none"
    /\ containerDisplay = "block"
    /\ title = Substring0(ReplyText, TitleLen)
    /\ messageMetadata = [defined |-> TRUE, entries |-> <<RenderedReply, RenderedReply>>]
    /\ idSeed = 3
    /\ inserted = {1, 2}
    /\ convList = {}
    /\ pending = SetToBag({ListRequest}) (+) SetToBag({ListRequest})
                     (+) SetToBag({ListRequest}) (+) SetToBag({ListRequest})
                     (+) SetToBag({Posting(Request("feedback", 1, "modal", NoText),
                                           SubmittedBody)})
    /\ srvConvs = PreExisting \cup {2}
    /\ srvNext = 3
    /\ sendTally = [posts |-> 1, lists |-> 1]
    /\ currentFeedbackMessageId = 1
    /\ currentFeedbackRating = 0
    /\ modalDisplay = "flex"
    /\ ops = 2
    /\ fbOps = 0
    /\ lastOp = [Op("submitFeedback", 2, 1, NoText, "requested", <<"POST feedback">>,
                    "none") EXCEPT !.cause = "modal", !.body = SubmittedBody]
    /\ searchValue = NoText
    /\ timers = << >>
    /\ sinceInput = DebounceWait
    /\ histPending = SetToBag({HistRequest("history", NoText)})
    /\ historyList = << >>
    /\ historyCache = [defined |-> TRUE, items |-> << >>]
    /\ fired = << >>
    /\ histFailed = FALSE
    /\ inputs = 0
    /\ lastHist = HistOp("init", NoText, << >>)
    /\ lastResult = NoResult
    /\ submitBtnDisabled = FALSE
    /\ resultsView = View("none", NoResult, NoText)
    /\ feedbackDisplay = ""
    /\ queryPending = EmptyBag
    /\ resultSerial = 0
    /\ queryOps = 0
    /\ lastQuery = QueryOp("init", "none", NoResult, NoResult, RatingAbsent, FALSE)
    /\ backend = [text |-> NoText, confidence |-> ConfidenceAbsent, evidence |-> 0]
    /\ markup = Markup("none", "none", << >>)

\* the feedback modal of the chat page
NextModal ==
    \/ OpenFeedbackModal
    \/ CloseFeedbackModal
    \/ SetModalRating
    \/ SubmitFeedback
    \/ FeedbackResponse

SpecModal == InitModal /\ [][NextModal]_vars

\* the query form of the query page
NextQuery ==
    \/ ClickSubmit
    \/ CtrlEnter
    \/ QueryResponse
    \/ ExportResult
    \/ ExportResultResponse
    \/ SubmitResultFeedback
    \/ ResultFeedbackResponse

SpecQuery == Init /\ [][NextQuery]_vars

----------------------------------------------------------------------------
(* Properties *)

SendOps == {"sendMessage", "useExample"}

IsBlank(s) == \A i \in 1..Len(s) : s[i] = " "

\* the step just taken ran sendMessage (from a key press, a click or useExample)
SendStep == ops' = ops + 1 /\ lastOp'.op \in SendOps

TypingCount(dom) == Cardinality({i \in 1..Len(dom) : dom[i].kind = "typing"})

\* C1: at most one send request is outstanding at any moment, the pending
\* flag is set exactly while it is, and a sendMessage invoked while the flag
\* is set appends nothing, shows no indicator and issues no request.
C1_SingleFlight ==
    /\ [](/\ PendingCount("send") <= 1
          /\ isWaitingForResponse <=> (PendingCount("send") = 1))
    /\ [][(isWaitingForResponse /\ SendStep) =>
             /\ UNCHANGED <<transcript, pending, isWaitingForResponse>>
             /\ lastOp'.issued = << >>]_vars

\* a non-empty message was submitted while a send was pending and was ignored
C1_Witness ==
    /\ lastOp.op \in SendOps
    /\ ~IsBlank(lastOp.text)
    /\ lastOp.outcome = "ignored"
    /\ isWaitingForResponse
    /\ PendingCount("send") = 1

\* C2 as stated: from its acceptance to the clearing of the pending flag a
\* send issues one and only one request.
C2_ExactlyOneRequest ==
    /\ isWaitingForResponse => sendTally.posts + sendTally.lists = 1
    /\ lastOp.op = "sendResponse" => sendTally.posts + sendTally.lists = 1

\* C2 amended: an accepted send issues exactly one message POST and keeps
\* further sends disabled until it resolves; when the reply is rendered it
\* also issues one conversation-list GET before the flag is cleared, and
\* none otherwise.
C2_OnePostThenRefresh ==
    /\ isWaitingForResponse =>
          /\ sendTally = [posts |-> 1, lists |-> 0]
          /\ PendingCount("send") = 1
          /\ sendBtnDisabled
    /\ lastOp.op = "sendResponse" =>
          /\ ~isWaitingForResponse
          /\ ~sendBtnDisabled
          /\ PendingCount("send") = 0
          /\ sendTally.posts = 1
          /\ sendTally.lists = (IF lastOp.outcome = "rendered" THEN 1 ELSE 0)
          /\ lastOp.issued =
                (IF lastOp.outcome = "rendered" THEN <<"GET conversations">> ELSE << >>)

\* a send has resolved with a rendered reply and its list refresh was issued
C2_Witness ==
    /\ lastOp.op = "sendResponse"
    /\ lastOp.outcome = "rendered"
    /\ sendTally = [posts |-> 1, lists |-> 1]

\* C3 as stated: for an empty or whitespace-only input sendMessage issues no
\* request and surfaces a validation message.
C3_ValidationMessage ==
    (lastOp.op \in SendOps /\ IsBlank(lastOp.text)) =>
        (lastOp.issued = << >> /\ lastOp.report # "none")

\* C3 amended: for an empty or whitespace-only input sendMessage issues no
\* request and is a silent no-op: nothing is rendered or reported and the
\* pending flag and the request set stay as they were.
C3_SilentNoOp ==
    [][(SendStep /\ IsBlank(lastOp'.text)) =>
          /\ UNCHANGED <<transcript, pending, isWaitingForResponse, sendBtnDisabled,
                         welcomeDisplay, containerDisplay, messageMetadata>>
          /\ lastOp'.issued = << >>
          /\ lastOp'.report = "none"]_vars

\* a whitespace-only input was submitted while no send was pending
C3_Witness ==
    /\ lastOp.op \in SendOps
    /\ lastOp.text = <<" ", " ">>
    /\ lastOp.outcome = "ignored"
    /\ ~isWaitingForResponse

\* C4: every entry of the rendered transcript belongs to the conversation
\* identified by currentConversationId.
C4_TranscriptMatchesActive ==
    \A i \in 1..Len(transcript) : transcript[i].conv = currentConversationId

\* the create call triggered by deleting the active conversation has finished
DeleteActiveFinished == lastOp.op = "createResponse" /\ lastOp.conv # Null

\* C5: once deleting the active conversation has finished, including the
\* create call it triggers, the active id names an existing conversation
\* other than the deleted one.
C5_DeleteActiveLeavesFreshActive ==
    DeleteActiveFinished =>
        /\ currentConversationId \in srvConvs
        /\ currentConversationId # lastOp.conv

\* C6: every assistant message in the rendered transcript has a registry
\* entry under the message id of its action buttons, holding its content.
C6_RenderedAssistantRegistered ==
    \A i \in 1..Len(transcript) :
        transcript[i].kind = "assistant" =>
            /\ messageMetadata.defined
            /\ transcript[i].id \in DOMAIN messageMetadata.entries
            /\ messageMetadata.entries[transcript[i].id].content = transcript[i].text

\* two assistant messages are rendered, each with its own registry entry
C6_Witness ==
    /\ Cardinality({i \in 1..Len(transcript) : transcript[i].kind = "assistant"}) >= 2
    /\ Cardinality(DOMAIN messageMetadata.entries) >= 2

\* C7: a registry entry exists only for a message whose markup was inserted
\* into the transcript.
C7_RegistryAtomicWithInsertion ==
    DOMAIN messageMetadata.entries \subseteq inserted

\* C8: a registry entry, once made, keeps its value in every later state.
C8_RegistryEntriesPersist ==
    [][\A id \in DOMAIN messageMetadata.entries :
          /\ id \in DOMAIN messageMetadata'.entries
          /\ messageMetadata'.entries[id] = messageMetadata.entries[id]]_vars

\* createNewChat has emptied the transcript while the registry holds entries
C8_Witness ==
    /\ lastOp.op = "createResponse"
    /\ lastOp.outcome = "ok"
    /\ transcript = << >>
    /\ Cardinality(DOMAIN messageMetadata.entries) >= 2

FeedbackOps == {"exportMessagePDF", "exportMessageCSV", "quickFeedback", "submitFeedback"}

Registered(id) == messageMetadata.defined /\ id \in DOMAIN messageMetadata.entries

\* C9: an export (PDF or CSV) or a feedback (modal or quick) on a message id
\* that is not in the registry issues no network call.
C9_UnregisteredFailsLocally ==
    [][(fbOps' = fbOps + 1 /\ lastOp'.op \in FeedbackOps /\ ~Registered(lastOp'.id)) =>
          (pending' = pending /\ lastOp'.issued = << >>)]_vars

\* a filled-in feedback was submitted for an id the existing registry lacks
C9_Witness ==
    /\ lastOp.op = "submitFeedback"
    /\ lastOp.outcome = "not found"
    /\ modalDisplay = "flex"
    /\ messageMetadata.defined
    /\ ~Registered(lastOp.id)

\* C10: after a failed send (an error response carrying an error field, or a
\* transport failure) the transcript ends with the user message of that send
\* followed by one error entry with the error text, and holds no indicator.
C10_FailedSendShowsUserThenError ==
    (lastOp.op = "sendResponse" /\ lastOp.outcome \in {"http_error", "transport"}) =>
        LET n == Len(transcript) IN
        /\ n >= 2
        /\ transcript[n - 1].kind = "user"
        /\ transcript[n - 1].text = lastOp.text
        /\ transcript[n].kind = "error"
        /\ transcript[n].text = (IF lastOp.outcome = "http_error" THEN ErrorText
                                 ELSE ConnectionErrorText)
        /\ TypingCount(transcript) = 0

\* a failed request: the transport failed, or the server answered with an
\* HTTP error status and an error body
FailedOutcomes == {"transport", "http_error"}

\* C11: when the create request of createConversation fails (transport
\* failure or HTTP error response), the failure is reported and the active
\* id, the transcript and the conversation list are left unchanged.
C11_FailedCreateChangesNothing ==
    [][(lastOp'.op = "createResponse" /\ lastOp'.outcome \in FailedOutcomes) =>
          /\ UNCHANGED <<currentConversationId, transcript, convList>>
          /\ lastOp'.report # "none"
          /\ lastOp'.issued = << >>]_vars

\* C12: when the fetch of loadConversation(id) fails (transport failure or
\* HTTP error response without messages), the active id and the transcript
\* are left unchanged and an error is reported.
C12_FailedLoadChangesNothing ==
    [][(lastOp'.op = "loadResponse" /\ lastOp'.outcome \in FailedOutcomes) =>
          /\ UNCHANGED <<currentConversationId, transcript>>
          /\ lastOp'.report # "none"]_vars

\* C13: deleteConversation abandons the active conversation only when the
\* deletion succeeded: a failed DELETE (transport failure or non-2xx
\* response) starts no new chat, and the active id and transcript stay.
C13_FailedDeleteKeepsActive ==
    [][/\ (lastOp'.op = "deleteResponse" /\ lastOp'.outcome \in FailedOutcomes) =>
              /\ lastOp'.issued # <<"POST conversations">>
              /\ UNCHANGED <<currentConversationId, transcript>>
       /\ (lastOp'.op = "createResponse" /\ lastOp'.cause = "delete failed") =>
              UNCHANGED <<currentConversationId, transcript>>]_vars

\* the role a fetched message is rendered with: everything that is not a
\* user message goes to appendAssistantMessage
RenderedKind(msg) == IF msg.role = "user" THEN "user" ELSE "assistant"

\* C14: after a successful loadConversation(id) resolves, id is active, the
\* transcript consists of exactly the fetched messages in fetched order, and
\* there is one new registry entry per rendered assistant message.
C14_LoadReplacesTranscript ==
    [][(lastOp'.op = "loadResponse" /\ lastOp'.outcome = "rendered") =>
          LET msgs == lastOp'.payload
              assistants == {i \in 1..Len(msgs) : RenderedKind(msgs[i]) = "assistant"}
              before == DOMAIN messageMetadata.entries
              after == DOMAIN messageMetadata'.entries
          IN /\ currentConversationId' = lastOp'.conv
             /\ Len(transcript') = Len(msgs)
             /\ \A i \in 1..Len(msgs) :
                    /\ transcript'[i].kind = RenderedKind(msgs[i])
                    /\ transcript'[i].text = msgs[i].content
                    /\ transcript'[i].conv = lastOp'.conv
             /\ Cardinality(after \ before) = Cardinality(assistants)
             /\ \A i \in assistants :
                    /\ transcript'[i].id \in after \ before
                    /\ messageMetadata'.entries[transcript'[i].id].content =
                           msgs[i].content]_vars

\* a conversation of two messages was loaded while a send was shown as
\* pending in the previous transcript
C14_Witness ==
    /\ lastOp.op = "loadResponse"
    /\ lastOp.outcome = "rendered"
    /\ Len(lastOp.payload) = 2
    /\ Len(transcript) = 2
    /\ transcript[2].kind = "assistant"
    /\ isWaitingForResponse
    /\ currentConversationId = lastOp.conv

\* C15: after a successful createConversation resolves, the conversation id
\* the service returned is active, the transcript is empty with the welcome
\* state shown, and a conversation-list refresh has been requested.
C15_CreateActivatesReturnedId ==
    [][(lastOp'.op = "createResponse" /\ lastOp'.outcome = "ok") =>
          /\ currentConversationId' \in srvConvs' \ srvConvs
          /\ transcript' = << >>
          /\ welcomeDisplay' = "flex"
          /\ containerDisplay' = "none"
          /\ lastOp'.issued = <<"GET conversations">>
          /\ \E req \in DOMAIN pending' :
                 /\ req.kind = "list"
                 /\ pending'[req] > (IF req \in DOMAIN pending THEN pending[req] ELSE 0)
       ]_vars

\* the user started a new chat from a conversation that showed messages
C15_Witness ==
    /\ lastOp.op = "createResponse"
    /\ lastOp.outcome = "ok"
    /\ lastOp.cause = "user"
    /\ currentConversationId \in srvConvs
    /\ transcript = << >>
    /\ welcomeDisplay = "flex"
    /\ PendingCount("list") >= 1
    /\ isWaitingForResponse

\* C16: deleteConversation(id) with id different from the active
\* conversation leaves the active id, the transcript and the registry
\* unchanged and only refreshes the conversation list (id compared with the
\* active conversation when deleteConversation is called).
C16_DeleteOtherOnlyRefreshes ==
    [][(lastOp'.op = "deleteResponse" /\ lastOp'.cause = "on other") =>
          /\ UNCHANGED <<currentConversationId, transcript, messageMetadata>>
          /\ lastOp'.issued \in {<< >>, <<"GET conversations">>}]_vars

\* C16 amended: id compared with the conversation that is active when the
\* DELETE request resolves.
C16_DeleteInactiveOnlyRefreshes ==
    [][(lastOp'.op = "deleteResponse" /\ lastOp'.conv # currentConversationId) =>
          /\ UNCHANGED <<currentConversationId, transcript, messageMetadata>>
          /\ lastOp'.issued \in {<< >>, <<"GET conversations">>}]_vars

\* the deletion of a conversation that is not active went through while the
\* active conversation shows messages and the registry holds an entry
C16_Witness ==
    /\ lastOp.op = "deleteResponse"
    /\ lastOp.outcome = "ok"
    /\ lastOp.conv # currentConversationId
    /\ lastOp.conv \notin srvConvs
    /\ lastOp.issued = <<"GET conversations">>
    /\ Len(transcript) > 0
    /\ Cardinality(DOMAIN messageMetadata.entries) >= 1

ReplyKinds == {"assistant", "error"}

\* C17: every user message appended by sendMessage is followed by exactly
\* one assistant-or-error entry, its own reply, before the next user message,
\* and no assistant or error entry of a send appears without the user
\* message that caused it directly before it.
C17_ReplyFollowsItsUserMessage ==
    [][/\ (lastOp'.op \in SendOps /\ lastOp'.outcome = "accepted") =>
              /\ Len(transcript') = Len(transcript) + 2
              /\ transcript'[Len(transcript) + 1].kind = "user"
              /\ \A i \in 1..Len(transcript) : transcript'[i] = transcript[i]
              /\ transcript # << >> => transcript[Len(transcript)].kind \in ReplyKinds
       /\ lastOp'.op = "sendResponse" =>
              LET n == Len(transcript') IN
              /\ n >= 2
              /\ transcript'[n].kind \in ReplyKinds
              /\ transcript'[n - 1].kind = "user"
              /\ transcript'[n - 1].text = lastOp'.text
              /\ transcript'[n - 1].conv = lastOp'.conv
              /\ TypingCount(transcript') = 0]_vars

\* the conversation shown has a title of its own: neither the placeholder
\* of a new chat nor a missing one
HasTitle == title \notin {DefaultTitle, NoText}

\* C18: on a successful send the display title is derived from the reply
\* only if the conversation had no title yet; a conversation that already
\* has a title keeps it.
C18_TitledConversationKeepsTitle ==
    [][(lastOp'.op = "sendResponse" /\ lastOp'.outcome = "rendered") =>
          IF HasTitle THEN title' = title
          ELSE title' = Substring0(ReplyText, TitleLen)]_vars

\* C19: after a search with a non-empty term followed by an empty term,
\* once all issued history requests have resolved, in any order, with a
\* result, the displayed history list is the unfiltered history.
C19_FilterThenClearRestoresAll ==
    LET n == Len(fired) IN
    (/\ n >= 2
     /\ fired[n].kind = "history"
     /\ fired[n - 1].kind = "search"
     /\ DOMAIN histPending = {}
     /\ ~histFailed) => historyList = HistoryData

\* C20: the history search is debounced: an input event issues no request
\* and leaves one timeout armed for the whole wait; a request is issued only
\* when the wait has passed without an input event, one per burst, to the
\* search endpoint for the trimmed term the box holds then, or for the
\* unfiltered history when that term is empty.
C20_DebouncedSearch ==
    [][/\ Len(timers') <= 1
       /\ lastHist'.op = "input" =>
              /\ timers' = <<DebounceWait>>
              /\ histPending' = histPending
              /\ fired' = fired
       /\ lastHist'.op = "tick" => histPending' = histPending /\ fired' = fired
       /\ lastHist'.op = "fire" =>
              LET term == Trim(searchValue) IN
              /\ sinceInput >= DebounceWait
              /\ timers' = << >>
              /\ Len(fired') = Len(fired) + 1
              /\ BagCardinality(histPending') = BagCardinality(histPending) + 1
              /\ \A i \in 1..Len(fired) : fired'[i] = fired[i]
              /\ fired'[Len(fired')] =
                     (IF term # NoText THEN [kind |-> "search", term |-> term]
                      ELSE [kind |-> "history", term |-> NoText])
              /\ BagIn(fired'[Len(fired')], histPending')
       /\ Len(fired') <= inputs']_vars

\* a burst of two input events ended with the box holding a padded term and
\* issued one search request for the trimmed term
C20_Witness ==
    /\ lastHist.op = "fire"
    /\ inputs = 2
    /\ searchValue = <<" ", "a">>
    /\ fired = <<[kind |-> "search", term |-> <<"a">>]>>
    /\ timers = << >>

\* the steps that complete a history fetch, full or filtered
FetchResponses == {"historyResponse", "searchResponse"}

Entities == {EntityOf(c) : c \in {"&", "<", ">", "\"", "'"}}

\* no special character stands in text except the & that opens an entity
NoRawSpecials(text) ==
    \A i \in 1..Len(text) :
        /\ text[i] \notin {"<", ">", "\"", "'"}
        /\ text[i] = "&" =>
               \E e \in Entities :
                   /\ i + Len(e) - 1 <= Len(text)
                   /\ SubSeq(text, i, i + Len(e) - 1) = e

\* C22: the output of escapeHtml holds no raw occurrence of & < > " ' for
\* every input string over an alphabet with these characters, in the chat
\* script's escapeHtml and in the query page's.
C22_EscapedHasNoRawSpecials ==
    markup.by = "escapeHtml" => NoRawSpecials(markup.fields[1].placed)

\* the generators that place backend strings into markup
Generators ==
    {"displayResults", "showError", "displayHistory", "loadConversations",
     "loadExamplePrompts", "appendUserMessage", "appendAssistantMessage",
     "appendErrorMessage"}

\* C23: every backend-supplied string placed into generated markup (query,
\* answer, evidence actor/source/text, model, trace_id, conversation id and
\* title, history query and query_id, error text) has passed through
\* escapeHtml first.
C23_BackendTextEscaped ==
    markup.by \in Generators =>
        \A i \in 1..Len(markup.fields) :
            LET f == markup.fields[i]
                escaped == EscapeOn(markup.page, f.value)
            IN f.placed \in {escaped, BackslashQuotes(escaped)}

\* none of rating, relevance, accuracy and comments holds anything
NothingFilledIn(body) ==
    /\ body.rating = 0
    /\ body.relevance = NoText
    /\ body.accuracy = NoText
    /\ body.comments = NoText

\* C24: the chat's submitFeedback posts a feedback record only if at least
\* one of rating, relevance, accuracy and comments is non-empty; when all
\* four are empty it alerts, issues no request and leaves the modal open
\* for the same message.
C24_EmptyFeedbackFailsLocally ==
    [][(lastOp'.op = "submitFeedback" /\ Registered(lastOp'.id)) =>
          /\ lastOp'.issued # << >> => ~NothingFilledIn(lastOp'.body)
          /\ NothingFilledIn(lastOp'.body) =>
                 /\ lastOp'.issued = << >>
                 /\ pending' = pending
                 /\ lastOp'.report = "alert"
                 /\ modalDisplay' = "flex"
                 /\ currentFeedbackMessageId' = lastOp'.id
                 /\ UNCHANGED <<currentFeedbackMessageId, currentFeedbackRating>>
       ]_vars

\* an empty form was submitted for a registered message
C24_Witness ==
    /\ lastOp.op = "submitFeedback"
    /\ Registered(lastOp.id)
    /\ NothingFilledIn(lastOp.body)
    /\ lastOp.report = "alert"
    /\ modalDisplay = "flex"
    /\ currentFeedbackMessageId = lastOp.id
    /\ PendingCount("feedback") = 0

\* C25: the rating of every posted feedback record is absent or an integer
\* in 1..5, whatever the form fields that passed the local precondition.
C25_PostedRatingInRange ==
    \A req \in DOMAIN pending :
        req.kind \in {"feedback", "quick"} =>
            req.body.rating = RatingAbsent \/ req.body.rating \in 1..5

\* C26: quickFeedback(messageId, sentiment) called from the buttons of a
\* registered message posts exactly one feedback record at once, with
\* rating 5 for positive and 1 for negative, carrying the content and the
\* trace id of that message's registry entry.
C26_QuickFeedbackPostsFixedRating ==
    [][(lastOp'.op = "quickFeedback" /\ Registered(lastOp'.id) /\ Clickable(lastOp'.id)) =>
          LET entry == messageMetadata.entries[lastOp'.id]
              posted == lastOp'.body
          IN /\ lastOp'.issued = <<"POST feedback">>
             /\ BagCardinality(pending') = BagCardinality(pending) + 1
             /\ \E req \in DOMAIN pending' :
                    /\ req.kind = "quick"
                    /\ req.body = posted
                    /\ pending'[req] = (IF req \in DOMAIN pending THEN pending[req] ELSE 0) + 1
             /\ lastOp'.cause = "positive" => posted.rating = 5
             /\ lastOp'.cause = "negative" => posted.rating = 1
             /\ posted.answer = entry.content
             /\ posted.trace_id = entry.metadata.trace_id
             /\ UNCHANGED <<modalDisplay, currentFeedbackMessageId>>]_vars

\* the thumbs-down button of a message with a trace id was clicked
C26_Witness ==
    /\ lastOp.op = "quickFeedback"
    /\ lastOp.cause = "negative"
    /\ lastOp.issued = <<"POST feedback">>
    /\ lastOp.body.rating = 1
    /\ lastOp.body.answer = ReplyText
    /\ lastOp.body.trace_id = <<"x">>
    /\ PendingCount("quick") = 1

\* the steps that read the response of an operation
ResponseOps ==
    {"sendResponse", "createResponse", "loadResponse", "deleteResponse",
     "exportResponse", "feedbackResponse"}

\* the report holds the message as it is, somewhere in its text
Quotes(report, message) ==
    \E i \in 1..(Len(report) - Len(message) + 1) :
        SubSeq(report, i, i + Len(message) - 1) = message

\* C27: on an application-level failure (HTTP non-2xx response carrying an
\* error field) the user-visible report of the operation holds that error
\* message verbatim, for every operation that reads a response.
C27_ErrorMessageShownVerbatim ==
    (lastOp.op \in ResponseOps /\ lastOp.outcome = "http_error") =>
        Quotes(lastOp.shown, ErrorText)

DigitValue(ch) == CHOOSE d \in 0..9 : Digit(d) = ch

IsDigit(ch) == \E d \in 0..9 : Digit(d) = ch

\* the number a sequence of digits writes
RECURSIVE NumberOf(_)
NumberOf(chars) ==
    IF chars = << >> THEN 0
    ELSE NumberOf(SubSeq(chars, 1, Len(chars) - 1)) * 10 + DigitValue(chars[Len(chars)])

\* text is a percentage with exactly one decimal: digits, a point, one
\* digit and the percent sign
IsPercentWithOneDecimal(text) ==
    /\ Len(text) >= 4
    /\ text[Len(text)] = "%"
    /\ text[Len(text) - 2] = "."
    /\ \A i \in (1..(Len(text) - 3)) \cup {Len(text) - 1} : IsDigit(text[i])

\* the tenths of a percent such a text writes
TenthsOf(text) ==
    NumberOf(SubSeq(text, 1, Len(text) - 3)) * 10 + DigitValue(text[Len(text) - 1])

\* the bar width and the label show the confidence, given in
\* ten-thousandths, as a percentage rounded to one decimal
ShowsConfidence(confidence) ==
    /\ IsPercentWithOneDecimal(markup.width)
    /\ markup.label = markup.width
    /\ 10 * TenthsOf(markup.width) - confidence \in -5..5
    /\ confidence = 8450 => markup.width = <<"8", "4", ".", "5", "%">>

\* the written count of n evidence items, n below ten
CountBadge(n) == <<Digit(n)>>

\* C28: for a query result with confidence c and n evidence items the
\* confidence bar width is c as a percentage with one decimal (0.845 gives
\* "84.5%") and the evidence count badge shows n (2 items give "2"); in the
\* chat view the badge shows n although at most 3 items are listed.
C28_ConfidenceAndEvidenceShown ==
    /\ (markup.by = "displayResults" /\ backend.confidence # ConfidenceAbsent) =>
           ShowsConfidence(backend.confidence)
    /\ markup.by = "displayResults" =>
           /\ markup.badge = CountBadge(backend.evidence)
           /\ markup.listed = backend.evidence
    /\ markup.by = "appendAssistantMessage" =>
           /\ markup.badge = CountBadge(backend.evidence)
           /\ markup.listed <= 3
           /\ markup.listed <= backend.evidence

\* C28 amended: as C28 for n >= 1; a result or reply without evidence gets
\* no evidence section and no badge, and a result without a confidence
\* shows "0.0%".
C28_ConfidenceAndEvidenceShownIfAny ==
    /\ markup.by = "displayResults" =>
           /\ backend.confidence # ConfidenceAbsent => ShowsConfidence(backend.confidence)
           /\ backend.confidence = ConfidenceAbsent =>
                  markup.width = <<"0", ".", "0", "%">> /\ markup.label = markup.width
           /\ markup.listed = backend.evidence
    /\ markup.by = "appendAssistantMessage" =>
           /\ markup.listed = (IF backend.evidence < 3 THEN backend.evidence ELSE 3)
           /\ markup.width = NoText
    /\ markup.by \in {"displayResults", "appendAssistantMessage"} =>
           /\ backend.evidence >= 1 => markup.badge = CountBadge(backend.evidence)
           /\ backend.evidence = 0 => markup.badge = NoText
           /\ Len(markup.fields) >= 3 * markup.listed

\* the result of the spec's scenario was rendered: confidence 0.845 and two
\* evidence items
C28_Witness ==
    /\ markup.by = "displayResults"
    /\ backend.confidence = 8450
    /\ backend.evidence = 2
    /\ markup.width = <<"8", "4", ".", "5", "%">>
    /\ markup.badge = <<"2">>
    /\ markup.listed = 2

\* the entries of dom other than typing indicators
Messages(dom) == SelectSeq(dom, LAMBDA e : e.kind # "typing")

\* C29: send responses are neither cancelled nor correlated: whichever
\* conversation is active when the response of a send arrives, the reply or
\* the error of that send is appended to the transcript then displayed, the
\* active conversation stays what it is, and a reply sets the title, although
\* the request was posted to the conversation active at send time.
C29_SendResponseLandsInActiveTranscript ==
    [][lastOp'.op = "sendResponse" =>
          LET last == transcript'[Len(transcript')] IN
          /\ currentConversationId' = currentConversationId
          /\ transcript' # << >>
          /\ Messages(SubSeq(transcript', 1, Len(transcript') - 1)) =
                 Messages(transcript)
          /\ last.conv = lastOp'.conv
          /\ last.kind = (IF lastOp'.outcome = "rendered" THEN "assistant" ELSE "error")
          /\ lastOp'.outcome = "rendered" =>
                 title' = Substring0(last.text, TitleLen)]_vars

\* the reply to a message posted to one conversation is the last entry of the
\* transcript of another, which was made active while the send was in flight
C29_Witness ==
    /\ lastOp.op = "sendResponse"
    /\ lastOp.outcome = "rendered"
    /\ lastOp.conv # currentConversationId
    /\ lastOp.conv # Null
    /\ transcript # << >>
    /\ transcript[Len(transcript)].kind = "assistant"
    /\ transcript[Len(transcript)].conv = lastOp.conv
    /\ title = Substring0(ReplyText, TitleLen)

SwitchResponses == {"createResponse", "loadResponse"}

\* dom shows messages of conversation conv only, and they are the first
\* messages of the payload, in the payload's order
ShowsPrefixOf(dom, conv, messages) ==
    /\ Len(dom) <= Len(messages)
    /\ \A i \in 1..Len(dom) :
           /\ dom[i].conv = conv
           /\ dom[i].text = messages[i].content
           /\ dom[i].kind = messages[i].role

\* C30: switching is last-resolved-wins: each createNewChat or
\* loadConversation response that arrives makes its own conversation the
\* active one whatever was requested since, and replaces the transcript in
\* the same step by what that response carries (nothing for a new chat), so
\* the active id of one response never stands with the transcript of
\* another; a request that fails in transport changes neither.
C30_SwitchSetsIdAndTranscriptTogether ==
    [][lastOp'.op \in SwitchResponses =>
          IF lastOp'.outcome = "transport"
          THEN UNCHANGED <<currentConversationId, transcript>>
          ELSE /\ lastOp'.op = "loadResponse" =>
                      /\ currentConversationId' = lastOp'.conv
                      /\ ShowsPrefixOf(transcript', lastOp'.conv, lastOp'.payload)
                      /\ lastOp'.outcome = "rendered" =>
                             Len(transcript') = Len(lastOp'.payload)
               /\ lastOp'.op = "createResponse" =>
                      /\ transcript' = << >>
                      /\ IF lastOp'.outcome = "ok"
                         THEN /\ currentConversationId' \in srvConvs' \ srvConvs
                              /\ currentConversationId' \notin {Null, Undefined}
                         ELSE currentConversationId' = Undefined]_vars

\* the conversation created at page load is the active one and its empty
\* transcript is shown, although a conversation requested later was loaded
\* and rendered before the response of the creation arrived
C30_Witness ==
    /\ lastOp.op = "createResponse"
    /\ lastOp.cause = "init"
    /\ lastOp.outcome = "ok"
    /\ inserted # {}
    /\ currentConversationId \in srvConvs \ PreExisting
    /\ transcript = << >>

\* C31: whenever the request of a pending send resolves, with a reply, an
\* HTTP error, a malformed body or a transport failure, the same step removes
\* the typing indicator, clears isWaitingForResponse and enables the send
\* button; so, every request resolving eventually, every pending state is
\* left, and a sendMessage with a message is then accepted.
C31_PendingIsLeft ==
    /\ [][lastOp'.op = "sendResponse" =>
              /\ TypingCount(transcript') = 0
              /\ ~isWaitingForResponse'
              /\ ~sendBtnDisabled'
              /\ Cardinality(PendingOf("send")') = Cardinality(PendingOf("send")) - 1]_vars
    /\ isWaitingForResponse ~>
           (/\ ~isWaitingForResponse
            /\ ~sendBtnDisabled
            /\ \A val \in Inputs : Trim(val) # NoText => SendAccepted(Trim(val)))

\* a send was pending with its typing indicator on display, and its request
\* resolved: the indicator is gone and the page accepts a message again
C31_Witness ==
    /\ lastOp.op = "sendResponse"
    /\ lastOp.outcome \in {"rendered", "threw", "http_error", "transport"}
    /\ TypingCount(transcript) = 0
    /\ transcript # << >>
    /\ ~isWaitingForResponse
    /\ ~sendBtnDisabled

\* C32: the transcript holds a typing indicator exactly while a send is
\* pending (isWaitingForResponse is true), and never more than one, whatever
\* the interleaving of sendMessage, loadConversation and createNewChat with
\* their responses.
C32_TypingIndicatorIffPending ==
    TypingCount(transcript) = (IF isWaitingForResponse THEN 1 ELSE 0)

\* C33: every message request issued by sendMessage targets a conversation
\* id: sendMessage never posts while currentConversationId is null or
\* undefined, as it is before the initial createNewChat has resolved and
\* after a create whose response carried no conversation_id.
C33_SendTargetsConversation ==
    [][(SendStep /\ lastOp'.outcome = "accepted") =>
          /\ currentConversationId \notin {Null, Undefined}
          /\ \A req \in PendingOf("send")' : req.conv \notin {Null, Undefined}]_vars

\* C34: whenever the welcome screen is displayed, the messages container is
\* hidden and empty: nothing is appended to the transcript while the welcome
\* state is shown, not even by a send response that arrives after
\* createNewChat.
C34_WelcomeMeansEmptyTranscript ==
    welcomeDisplay = "flex" =>
        /\ containerDisplay = "none"
        /\ transcript = << >>

\* C35: on the query page at most one /api/query request is in flight at a
\* time, whether submitQuery is triggered by the submit button or by
\* Ctrl+Enter, and the submit button is disabled exactly while a request is
\* outstanding.
C35_OneQueryInFlight ==
    /\ QueryPendingCount({"query"}) <= 1
    /\ submitBtnDisabled <=> QueryPendingCount({"query"}) >= 1

SnapshotOps == {"export", "submitFeedback"}

\* C36: on the query page lastResult is the result of the query displayed
\* last: only a response that is displayed assigns it, and assigns the result
\* it displays; an empty or failed submitQuery leaves it as it is, error
\* shown or not; and an export or a feedback record sent afterwards carries
\* that earlier result.
C36_LastResultIsLastDisplayed ==
    [][/\ IF lastQuery'.op = "queryResponse" /\ lastQuery'.outcome = "ok"
          THEN /\ lastResult' = lastQuery'.result
               /\ lastResult' # NoResult
               /\ resultsView' = View("results", lastResult', NoText)
          ELSE /\ lastResult' = lastResult
               /\ resultsView'.kind = "results" => resultsView' = resultsView
       /\ (lastQuery'.op \in SnapshotOps /\ lastQuery'.issued) =>
              /\ lastQuery'.snapshot = lastResult
              /\ \E req \in BagToSet(queryPending') :
                     /\ req.snapshot = lastResult
                     /\ CopiesIn(req, queryPending') = CopiesIn(req, queryPending) + 1]_vars

\* a query failed after an earlier one was displayed, the error is on
\* display, and the feedback or export sent then carries the earlier result
C36_Witness ==
    /\ lastQuery.op \in SnapshotOps
    /\ lastQuery.issued
    /\ resultsView.kind = "error"
    /\ lastResult # NoResult
    /\ lastQuery.snapshot = lastResult
    /\ \E req \in BagToSet(queryPending) : req.snapshot = lastResult

\* C37: a successful chat feedback response closes the modal and resets
\* currentFeedbackMessageId only for the message the feedback was submitted
\* for: when the modal was closed and opened for another message while the
\* request was in flight, the late response leaves that modal and its
\* selection as they are.
C37_LateResponseLeavesOtherModal ==
    [][(lastOp'.op = "feedbackResponse" /\ lastOp'.outcome = "ok") =>
          IF lastOp'.id = currentFeedbackMessageId
          THEN modalDisplay' = "none" /\ currentFeedbackMessageId' = Null
          ELSE UNCHANGED <<modalDisplay, currentFeedbackMessageId,
                           currentFeedbackRating>>]_vars

====
